---- MODULE Spec2Model ----
(***************************************************************************)
(* A model of the agent_games runtime: the request dispatcher              *)
(* (runtime/dispatcher.py), the disk-backed session store                  *)
(* (runtime/session_store.py), the protocol envelope (protocol/models.py)  *)
(* and the bundled tic-tac-toe plugin (plugins/tictactoe/game.py).         *)
(*                                                                         *)
(* The state is the session directory tree, the plugin registry of the     *)
(* running Dispatcher, and the last request handed to dispatch together    *)
(* with what dispatch returned for it.                                     *)
(***************************************************************************)
EXTENDS Integers, Sequences, FiniteSets, TLC

VARIABLES store, plugins, request, response, calls

vars == <<store, plugins, request, response, calls>>

-----------------------------------------------------------------------------
(* Python / JSON values.                                                   *)
(* None stands for Python's None where the other values are strings,       *)
(* Null where the other values are mappings.                               *)

None == "None"
Null == [null |-> TRUE]

\* The threads that call dispatch on one Dispatcher, and where each is in its
\* call. Outside a call a thread is idle.
Threads == {"t1", "t2"}

NoCalls == [t \in Threads |-> [at |-> "idle"]]

\* A JSON value of a raw request, tagged with its Python type.
JStr(s) == [t |-> "str", v |-> s]
JInt(n) == [t |-> "int", v |-> n]
JDict(d) == [t |-> "dict", v |-> d]
JFloat(text) == [t |-> "float", v |-> text]
JNull == [t |-> "null"]
JMissing == [t |-> "missing"]

EmptyDict == <<>>

\* dict.get(key, default)
Get(d, key, default) == IF key \in DOMAIN d THEN d[key] ELSE default

\* sorted(..., reverse=True): the largest first.
RECURSIVE Sorted_descending(_)
Sorted_descending(S) ==
    IF S = {} THEN <<>>
    ELSE LET m == CHOOSE x \in S : \A y \in S : x >= y
         IN <<m>> \o Sorted_descending(S \ {m})

\* The set S of integers as an ascending list (sorted(...)).
RECURSIVE Sorted(_)
Sorted(S) ==
    IF S = {} THEN <<>>
    ELSE LET m == CHOOSE x \in S : \A y \in S : x <= y
         IN <<m>> \o Sorted(S \ {m})

-----------------------------------------------------------------------------
(* Protocol vocabulary.                                                    *)

OK == "OK"
INVALID_ARGS == "INVALID_ARGS"
NOT_REGISTERED == "NOT_REGISTERED"
UNKNOWN_COMMAND == "UNKNOWN_COMMAND"
NOT_SUPPORTED == "NOT_SUPPORTED"
INVALID_MOVE == "INVALID_MOVE"
GAME_OVER == "GAME_OVER"
INTERNAL_ERROR == "INTERNAL_ERROR"

PROTOCOL_VERSION == "protocol-version"

FRAMEWORK_COMMANDS == {"ping", "schema", "history", "view", "latest"}

\* protocol/commands.py is not among the sources: the vocabulary is the one the
\* tests show ("reset" is standard, "dance" is not) and the plugin handles.
STANDARD_COMMANDS == {"rules", "status", "agent_view", "move", "reset"}

-----------------------------------------------------------------------------
(* runtime/serialization.py                                                *)

\* The canonical text of a value: what is written to a file.
stable_json_dumps(obj) == [json |-> obj]

\* json.loads of a text written by stable_json_dumps.
json_loads(text) == text.json

state_hash(obj) == [sha256 |-> stable_json_dumps(obj)]

\* Above, a Python dict is the mapping it holds. Below it is the dict itself:
\* its items in the order they were inserted, json.dumps writing them in the
\* order sort_keys decides.
PyDict(items) == [t |-> "pydict", items |-> items]

\* The keys a dict may hold, in the order of their code points.
KeyOrder == <<"a", "b">>

Keys == {KeyOrder[i] : i \in 1 .. Len(KeyOrder)}

KeysOf(items) == {items[i][1] : i \in 1 .. Len(items)}

ValueAt(items, key) == items[CHOOSE i \in 1 .. Len(items) : items[i][1] = key][2]

\* The mapping a value holds, whatever the order of insertion.
RECURSIVE AsMapping(_)
AsMapping(obj) ==
    IF obj.t # "pydict" THEN obj
    ELSE [t |-> "mapping",
          v |-> [k \in KeysOf(obj.items) |-> AsMapping(ValueAt(obj.items, k))]]

\* sorted(dct.items()): the items by ascending key.
sorted_items(items) ==
    LET present == SelectSeq(KeyOrder, LAMBDA k : k \in KeysOf(items))
    IN [j \in 1 .. Len(present) |-> <<present[j], ValueAt(items, present[j])>>]

\* The items in the order they were inserted.
inserted_items(items) == items

\* json.dumps(obj, sort_keys=..., separators=(",", ":")), as the list of the
\* pieces of its text.
RECURSIVE json_dumps(_, _)
RECURSIVE json_dumps_items(_, _, _)
json_dumps_items(items, sort_keys, i) ==
    IF i > Len(items) THEN <<>>
    ELSE (IF i > 1 THEN <<",">> ELSE <<>>)
         \o <<items[i][1], ":">> \o json_dumps(items[i][2], sort_keys)
         \o json_dumps_items(items, sort_keys, i + 1)

json_dumps(obj, sort_keys) ==
    IF obj.t # "pydict" THEN <<obj.v>>
    ELSE <<"{">>
         \o json_dumps_items(IF sort_keys THEN sorted_items(obj.items)
                             ELSE inserted_items(obj.items),
                             sort_keys, 1)
         \o <<"}">>

\* The keys are written in the order of insertion.
stable_json_dumps_text_unsorted(obj) == json_dumps(obj, FALSE)

\* Line 11.
stable_json_dumps_text(obj) == json_dumps(obj, TRUE)

\* Line 15.
state_hash_text(obj) == [sha256 |-> stable_json_dumps_text(obj)]

-----------------------------------------------------------------------------
(* plugins/tictactoe/game.py                                               *)

TICTACTOE == "tictactoe"

Idx == 0 .. 2

EmptyBoard == [y \in Idx |-> [x \in Idx |-> " "]]

\* The move is placed on a copy that is then dropped.
Place_lost(board, x, y, token) == board

\* board[y][x] = token
Place(board, x, y, token) == [board EXCEPT ![y] = [@ EXCEPT ![x] = token]]

T_manifest == [id |-> TICTACTOE,
               supported_commands |-> {"rules", "status", "agent_view", "move"}]

T_initialize(options) ==
    [board |-> EmptyBoard,
     agent_token |-> "X",
     opponent_token |-> "O",
     next_player |-> "agent",
     turn_number |-> 0,
     game_over |-> FALSE,
     winner |-> None,
     last_move |-> Null]

T_is_action(command) == command = "move"

T_generate_agent_view(state) ==
    [board |-> state.board,
     next_player |-> state.next_player,
     game_over |-> state.game_over,
     winner |-> state.winner,
     last_move |-> state.last_move,
     turn_number |-> state.turn_number]

\* "\n".join(" | ".join(row) for row in board), as the list of its pieces.
render_board(board) ==
    LET row(y) == <<board[y][0], " | ", board[y][1], " | ", board[y][2]>>
    IN row(0) \o <<"\n">> \o row(1) \o <<"\n">> \o row(2)

T_generate_human_view(state) ==
    [board |-> state.board,
     rendered_board |-> render_board(state.board),
     next_player |-> state.next_player,
     game_over |-> state.game_over,
     winner |-> state.winner,
     last_move |-> state.last_move,
     turn_number |-> state.turn_number]

\* The eight lines, in the order _lines yields them.
lines(board) ==
    << <<board[0][0], board[0][1], board[0][2]>>,
       <<board[1][0], board[1][1], board[1][2]>>,
       <<board[2][0], board[2][1], board[2][2]>>,
       <<board[0][0], board[1][0], board[2][0]>>,
       <<board[0][1], board[1][1], board[2][1]>>,
       <<board[0][2], board[1][2], board[2][2]>>,
       <<board[0][0], board[1][1], board[2][2]>>,
       <<board[0][2], board[1][1], board[2][0]>> >>

AllCells(line, token) == \A i \in 1 .. 3 : line[i] = token

\* The first element of a list, or a default when it is empty.
FirstOf(seq, default) == IF seq = <<>> THEN default ELSE seq[1]

\* Lines 180-183: what one line decides.
line_winner(line, agent_token, opponent_token) ==
    IF AllCells(line, agent_token) THEN "agent"
    ELSE IF AllCells(line, opponent_token) THEN "opponent"
    ELSE None

winner_for_board(board, agent_token, opponent_token) ==
    FirstOf(SelectSeq([i \in 1 .. 8 |->
                          line_winner(lines(board)[i], agent_token,
                                      opponent_token)],
                      LAMBDA w : w # None),
            None)

board_full(board) == \A y \in Idx : \A x \in Idx : board[y][x] # " "

\* The cells <<x, y>> in the order _empty_cells visits them.
CellOrder ==
    << <<0, 0>>, <<1, 0>>, <<2, 0>>,
       <<0, 1>>, <<1, 1>>, <<2, 1>>,
       <<0, 2>>, <<1, 2>>, <<2, 2>> >>

empty_cells(board) == SelectSeq(CellOrder, LAMBDA c : board[c[2]][c[1]] = " ")

\* "No move" (Python's None where the other values are cells <<x, y>>).
NoCell == <<>>

\* "if move is not None: return move", and what follows otherwise.
OrElse(move, otherwise) == IF move # NoCell THEN move ELSE otherwise

find_winning_move(board, token) ==
    LET wins(c) == LET probe == Place(board, c[1], c[2], token)
                   IN \E i \in 1 .. 8 : AllCells(lines(probe)[i], token)
    IN FirstOf(SelectSeq(empty_cells(board), wins), NoCell)

Corners == << <<0, 0>>, <<2, 0>>, <<0, 2>>, <<2, 2>> >>
Edges == << <<1, 0>>, <<0, 1>>, <<2, 1>>, <<1, 2>> >>

choose_opponent_move(board, agent_token, opponent_token) ==
    LET free(c) == board[c[2]][c[1]] = " "
    IN OrElse(find_winning_move(board, opponent_token),
       OrElse(find_winning_move(board, agent_token),
              IF board[1][1] = " " THEN <<1, 1>>
              ELSE OrElse(FirstOf(SelectSeq(Corners, free), NoCell),
                          FirstOf(SelectSeq(Edges, free), NoCell))))

\* What execute returns: the five-tuple, whether it raised instead, and the
\* value of the state object it was handed once it has returned.
Returned(data, new_state, code, message, action_succeeded, handed) ==
    [raised |-> FALSE, data |-> data, new_state |-> new_state, code |-> code,
     message |-> message, action_succeeded |-> action_succeeded,
     handed |-> handed]

\* Lines 85-86 and 121-127: the token of player goes on the cell.
T_place(state, x, y, player, token) ==
    [state EXCEPT !.board = Place(state.board, x, y, token),
                  !.last_move = [player |-> player, token |-> token,
                                 x |-> x, y |-> y]]

\* Lines 89-98 and 130-141: the game ends with a winner or a full board, or
\* the turn passes to the other player.
T_settle(placed, winner, other) ==
    IF winner # None
    THEN [placed EXCEPT !.game_over = TRUE, !.winner = winner,
                        !.next_player = "agent"]
    ELSE IF board_full(placed.board)
    THEN [placed EXCEPT !.game_over = TRUE, !.winner = "draw",
                        !.next_player = "agent"]
    ELSE [placed EXCEPT !.next_player = other]

\* Lines 88 and 129.
T_judge(placed, other) ==
    T_settle(placed,
             winner_for_board(placed.board, placed.agent_token,
                              placed.opponent_token),
             other)

\* Lines 84-98.
T_move(x, y, state) ==
    T_judge(T_place(state, x, y, "agent", state.agent_token), "opponent")

\* Lines 100-106.
T_applied(next_state, state) ==
    Returned(T_generate_agent_view(next_state), next_state, OK, "Move applied",
             TRUE, state)

IsInt(j) == j.t = "int"

\* execute without the test of lines 70-71: a move is examined whether or not
\* the game is over.
T_execute_after_end(command, args, state, request_meta) ==
    IF command = "rules"
    THEN Returned([rules |-> "rules text", reason_echo |-> request_meta.reason],
                  state, OK, "Rules retrieved", FALSE, state)
    ELSE IF command \in {"status", "agent_view"}
    THEN Returned(T_generate_agent_view(state), state, OK, "Status retrieved",
                  FALSE, state)
    ELSE IF command # "move"
    THEN Returned(EmptyDict, state, INVALID_ARGS, "Unexpected command", FALSE, state)
    ELSE IF state.next_player # "agent"
    THEN Returned(EmptyDict, state, INVALID_MOVE, "It is not the agent's turn",
                  FALSE, state)
    ELSE LET x == Get(args, "x", JNull)
             y == Get(args, "y", JNull)
         IN IF ~IsInt(x) \/ ~IsInt(y)
            THEN Returned(EmptyDict, state, INVALID_ARGS,
                          "Move requires integer x and y", FALSE, state)
            ELSE IF x.v \notin Idx \/ y.v \notin Idx
            THEN Returned(EmptyDict, state, INVALID_MOVE, "Move is out of range",
                          FALSE, state)
            ELSE IF state.board[y.v][x.v] # " "
            THEN Returned(EmptyDict, state, INVALID_MOVE,
                          "Cell is already occupied", FALSE, state)
            ELSE T_applied(T_move(x.v, y.v, state), state)

T_execute(command, args, state, request_meta) ==
    IF command = "rules"
    THEN Returned([rules |-> "rules text", reason_echo |-> request_meta.reason],
                  state, OK, "Rules retrieved", FALSE, state)
    ELSE IF command \in {"status", "agent_view"}
    THEN Returned(T_generate_agent_view(state), state, OK, "Status retrieved",
                  FALSE, state)
    ELSE IF command # "move"
    THEN Returned(EmptyDict, state, INVALID_ARGS, "Unexpected command", FALSE, state)
    ELSE IF state.game_over
    THEN Returned(EmptyDict, state, GAME_OVER, "Game is already over", FALSE, state)
    ELSE IF state.next_player # "agent"
    THEN Returned(EmptyDict, state, INVALID_MOVE, "It is not the agent's turn",
                  FALSE, state)
    ELSE LET x == Get(args, "x", JNull)
             y == Get(args, "y", JNull)
         IN IF ~IsInt(x) \/ ~IsInt(y)
            THEN Returned(EmptyDict, state, INVALID_ARGS,
                          "Move requires integer x and y", FALSE, state)
            ELSE IF x.v \notin Idx \/ y.v \notin Idx
            THEN Returned(EmptyDict, state, INVALID_MOVE, "Move is out of range",
                          FALSE, state)
            ELSE IF state.board[y.v][x.v] # " "
            THEN Returned(EmptyDict, state, INVALID_MOVE,
                          "Cell is already occupied", FALSE, state)
            ELSE T_applied(T_move(x.v, y.v, state), state)

\* Lines 114-141.
T_reply(state, move) ==
    IF move = NoCell
    THEN [state EXCEPT !.game_over = TRUE, !.winner = "draw",
                       !.next_player = "agent"]
    ELSE T_judge(T_place(state, move[1], move[2], "opponent",
                         state.opponent_token),
                 "agent")

\* The opponent does not reply.
T_opponent_step_idle(state) == state

\* The opponent passes: it places no token and hands the turn back.
T_opponent_step_passing(state) ==
    IF state.game_over \/ state.next_player # "opponent" THEN state
    ELSE [state EXCEPT !.next_player = "agent"]

T_opponent_step(state) ==
    IF state.game_over \/ state.next_player # "opponent" THEN state
    ELSE T_reply(state,
                 choose_opponent_move(state.board, state.agent_token,
                                      state.opponent_token))

-----------------------------------------------------------------------------
(* plugins/base.py: any other plugin satisfying the GamePlugin contract.   *)
(* SCRIPTED is such a plugin; what each of its calls does is given by a    *)
(* script o = [exec |-> ..., opp |-> ...] chosen by the caller of the      *)
(* model, so that execute may return a new state, change the state object  *)
(* it was handed, reject, or raise.                                        *)

SCRIPTED == "scripted"

ExecScripts == {"ok", "ok_inplace", "ok_ends", "reject", "reject_inplace",
                "ok_unsucceeded", "error_succeeded", "raise"}
OppScripts == {"pass", "reply", "reply_ends"}
Scripts == [exec : ExecScripts, opp : OppScripts]

S_manifest == [id |-> SCRIPTED, supported_commands |-> {"status", "move"}]

S_initialize(options) ==
    [moves |-> 0,
     turn_number |-> 0,
     game_over |-> FALSE,
     winner |-> None,
     last_move |-> Null]

S_is_action(command) == command = "move"

S_generate_agent_view(state) ==
    [moves |-> state.moves, game_over |-> state.game_over,
     winner |-> state.winner, turn_number |-> state.turn_number]

S_generate_human_view(state) ==
    [moves |-> state.moves, game_over |-> state.game_over,
     winner |-> state.winner, last_move |-> state.last_move,
     turn_number |-> state.turn_number]

S_played(state, player) ==
    [state EXCEPT !.moves = @ + 1, !.last_move = [player |-> player]]

S_execute(o, command, args, state, request_meta) ==
    LET played == S_played(state, "agent")
        ended == [played EXCEPT !.game_over = TRUE, !.winner = "agent"]
        view(s) == S_generate_agent_view(s)
    IN CASE o.exec = "ok" ->
              Returned(view(played), played, OK, "done", TRUE, state)
         [] o.exec = "ok_inplace" ->
              Returned(view(played), played, OK, "done", TRUE, played)
         [] o.exec = "ok_ends" ->
              Returned(view(ended), ended, OK, "done", TRUE, state)
         [] o.exec = "reject" ->
              Returned(EmptyDict, state, INVALID_MOVE, "rejected", FALSE, state)
         [] o.exec = "reject_inplace" ->
              Returned(EmptyDict, played, INVALID_MOVE, "rejected", FALSE, played)
         [] o.exec = "ok_unsucceeded" ->
              Returned(view(played), played, OK, "done", FALSE, state)
         [] o.exec = "error_succeeded" ->
              Returned(EmptyDict, played, INVALID_ARGS, "bad", TRUE, state)
         [] o.exec = "raise" ->
              [raised |-> TRUE, message |-> "plugin failure", handed |-> played]

S_opponent_step(o, state) ==
    IF state.game_over THEN state
    ELSE CASE o.opp = "pass" -> state
           [] o.opp = "reply" -> S_played(state, "opponent")
           [] o.opp = "reply_ends" ->
                [S_played(state, "opponent") EXCEPT !.game_over = TRUE,
                                                    !.winner = "opponent"]

-----------------------------------------------------------------------------
(* The plugin object a registry maps a plugin id to.                       *)

AllPlugins == {TICTACTOE, SCRIPTED}

manifest(p) == IF p = TICTACTOE THEN T_manifest ELSE S_manifest
initialize(p, options) ==
    IF p = TICTACTOE THEN T_initialize(options) ELSE S_initialize(options)
is_action(p, command) ==
    IF p = TICTACTOE THEN T_is_action(command) ELSE S_is_action(command)
execute(p, o, command, args, state, request_meta) ==
    IF p = TICTACTOE THEN T_execute(command, args, state, request_meta)
    ELSE S_execute(o, command, args, state, request_meta)
opponent_step(p, o, state) ==
    IF p = TICTACTOE THEN T_opponent_step(state) ELSE S_opponent_step(o, state)
generate_agent_view(p, state) ==
    IF p = TICTACTOE THEN T_generate_agent_view(state)
    ELSE S_generate_agent_view(state)
generate_human_view(p, state) ==
    IF p = TICTACTOE THEN T_generate_human_view(state)
    ELSE S_generate_human_view(state)

-----------------------------------------------------------------------------
(* runtime/session_store.py                                                *)
(* st[sid] is the directory of session sid: meta.json, the files of        *)
(* turns/ keyed by the number their name holds, and the lines of           *)
(* log.ndjson.                                                             *)

Sessions(st) == DOMAIN st

create_session(st, session_id, plugin_id, agent_id, protocol_version, options) ==
    (session_id :>
        [meta |-> stable_json_dumps([session_id |-> session_id,
                                     plugin_id |-> plugin_id,
                                     agent_id |-> agent_id,
                                     protocol_version |-> protocol_version,
                                     options |-> options]),
         turns |-> <<>>,
         log |-> <<>>]) @@ st

read_meta(st, session_id) == json_loads(st[session_id].meta)

\* The entry is written twice.
append_log_twice(st, session_id, entry) ==
    [st EXCEPT ![session_id].log =
        Append(Append(@, stable_json_dumps(entry)), stable_json_dumps(entry))]

\* The entry is put before the lines the log holds.
append_log_front(st, session_id, entry) ==
    [st EXCEPT ![session_id].log = <<stable_json_dumps(entry)>> \o @]

\* The entry is written to the log of every session of the directory.
append_log_everywhere(st, session_id, entry) ==
    [s \in Sessions(st) |->
        [st[s] EXCEPT !.log = Append(@, stable_json_dumps(entry))]]

append_log(st, session_id, entry) ==
    [st EXCEPT ![session_id].log = Append(@, stable_json_dumps(entry))]

Snapshot(turn_number, canonical_state, agent_view, human_view, events_for_turn) ==
    [turn_number |-> turn_number,
     canonical_state |-> canonical_state,
     agent_view |-> agent_view,
     human_view |-> human_view,
     events |-> events_for_turn]

\* A turn file that is there is kept.
write_turn_snapshot_exclusive(st, session_id, turn_number, canonical_state, agent_view, human_view, events_for_turn) ==
    [st EXCEPT ![session_id].turns =
        @ @@ (turn_number :> stable_json_dumps(
            Snapshot(turn_number, canonical_state, agent_view, human_view,
                     events_for_turn)))]

write_turn_snapshot(st, session_id, turn_number, canonical_state, agent_view, human_view, events_for_turn) ==
    [st EXCEPT ![session_id].turns =
        (turn_number :> stable_json_dumps(
            Snapshot(turn_number, canonical_state, agent_view, human_view,
                     events_for_turn))) @@ @]

list_turns(st, session_id) ==
    IF session_id \notin Sessions(st) THEN <<>>
    ELSE Sorted(DOMAIN st[session_id].turns)

\* read_turn raises FileNotFoundError unless the file is there.
turn_exists(st, session_id, turn_number) ==
    /\ session_id \in Sessions(st)
    /\ turn_number \in DOMAIN st[session_id].turns

\* Whatever number is asked for, the newest file is read.
read_turn_newest(st, session_id, turn_number) ==
    json_loads(st[session_id].turns[
        CHOOSE k \in DOMAIN st[session_id].turns :
            \A j \in DOMAIN st[session_id].turns : j <= k])

read_turn(st, session_id, turn_number) ==
    json_loads(st[session_id].turns[turn_number])

\* latest_turn raises FileNotFoundError when list_turns is empty.
latest_turn(st, session_id) ==
    LET turns == list_turns(st, session_id) IN turns[Len(turns)]

-----------------------------------------------------------------------------
(* protocol/models.py                                                      *)

\* Optional[StrictStr]: a string, null, or absent.
OptionalStrictStr(j) == j.t \in {"str", "null", "missing"}
StrictStr(j) == j.t = "str"

\* Request.model_validate(raw_request) raises ValidationError unless this holds.
\* (extra = "forbid": raw.extra says the request carries an unknown field.)
validates(raw) ==
    /\ ~raw.extra
    /\ OptionalStrictStr(raw.session_id)
    /\ StrictStr(raw.agent_id)
    /\ StrictStr(raw.command)
    /\ raw.args.t \in {"dict", "missing"}
    /\ StrictStr(raw.reason)

\* The validated Request (and request.model_dump()).
Request(raw) ==
    [session_id |-> IF raw.session_id.t = "str" THEN raw.session_id.v ELSE None,
     agent_id |-> raw.agent_id.v,
     command |-> raw.command.v,
     args |-> IF raw.args.t = "dict" THEN raw.args.v ELSE EmptyDict,
     reason |-> raw.reason.v]

\* What dispatch hands back: a response envelope, or an exception that escapes.
Raise(exception) == [raised |-> TRUE, exception |-> exception]

Response(ok, code, message, data, turn_advanced, turn_number, game_over, winner, session_id) ==
    [raised |-> FALSE,
     ok |-> ok,
     code |-> code,
     message |-> message,
     data |-> data,
     turn_advanced |-> turn_advanced,
     turn_number |-> turn_number,
     game_over |-> game_over,
     winner |-> winner,
     session_id |-> session_id]

-----------------------------------------------------------------------------
(* runtime/dispatcher.py                                                   *)

\* What one call of dispatch does: the store it leaves, what it hands back, and
\* the branch of dispatch that ended it.
Result(st, resp, branch) == [store |-> st, response |-> resp, branch |-> branch]

\* Every entry is recorded as one that advanced the turn.
Entry_advancing(request_payload, resp, pre_hash, post_hash, turn_advanced, turn_number) ==
    [request |-> request_payload,
     response |-> resp,
     pre_hash |-> pre_hash,
     post_hash |-> post_hash,
     turn_advanced |-> TRUE,
     turn_number |-> turn_number]

Entry(request_payload, resp, pre_hash, post_hash, turn_advanced, turn_number) ==
    [request |-> request_payload,
     response |-> resp,
     pre_hash |-> pre_hash,
     post_hash |-> post_hash,
     turn_advanced |-> turn_advanced,
     turn_number |-> turn_number]

\* Lines 178-189: the ValidationError handler. The envelope is itself a
\* validated Response, whose session_id must be a string or None.
reject_invalid(st, raw) ==
    IF OptionalStrictStr(raw.session_id)
    THEN Result(st,
                Response(FALSE, INVALID_ARGS, "validation error", EmptyDict, FALSE, 0,
                         FALSE, None,
                         IF raw.session_id.t = "str" THEN raw.session_id.v
                         ELSE None),
                "invalid")
    ELSE Result(st, Raise("ValidationError"), "invalid")

\* Lines 191-201.
reject_no_session_id(st) ==
    Result(st,
           Response(FALSE, NOT_REGISTERED,
                    "session_id is required for non-register commands",
                    EmptyDict, FALSE, 0, FALSE, None, None),
           "no_session_id")

\* Lines 203-268.
register(st, reg, req, fresh) ==
    LET plugin_id == Get(req.args, "plugin_id", JStr(TICTACTOE))
    IN IF plugin_id.t = "dict"
       THEN Result(st, Raise("TypeError"), "register_rejected")
       ELSE IF ~(plugin_id.t = "str" /\ plugin_id.v \in reg)
       THEN Result(st,
                   Response(FALSE, NOT_REGISTERED, "Plugin is not registered",
                            EmptyDict, FALSE, 0, FALSE, None, None),
                   "register_rejected")
       ELSE LET p == plugin_id.v
                options == Get(req.args, "options", JDict(EmptyDict))
                st1 == create_session(st, fresh, p, req.agent_id,
                                      PROTOCOL_VERSION, options)
                initial_state == [initialize(p, options) EXCEPT !.turn_number = 0]
                snapshot_events == << [type |-> "register",
                                       reason |-> req.reason,
                                       agent_id |-> req.agent_id,
                                       plugin_id |-> p] >>
                st2 == write_turn_snapshot(st1, fresh, 0, initial_state,
                           generate_agent_view(p, initial_state),
                           generate_human_view(p, initial_state),
                           snapshot_events)
                resp == Response(TRUE, OK, "Registered",
                                 [plugin_id |-> p,
                                  protocol_version |-> PROTOCOL_VERSION],
                                 FALSE, 0, initial_state.game_over,
                                 initial_state.winner, fresh)
                st3 == append_log(st2, fresh,
                           Entry(req, resp, Null, state_hash(initial_state),
                                 FALSE, 0))
            IN Result(st3, resp, "registered")

\* Lines 61-65 and 270-272: _load_session raises FileNotFoundError unless the
\* session has its meta.json and at least one turn.
session_loads(st, session_id) ==
    /\ session_id \in Sessions(st)
    /\ list_turns(st, session_id) # <<>>

load_session(st, session_id) ==
    [meta |-> read_meta(st, session_id),
     snapshot |-> read_turn(st, session_id, latest_turn(st, session_id))]

\* A dispatcher that creates the session it does not find.
reject_session_not_found_creating(st, req) ==
    Result(create_session(st, req.session_id, TICTACTOE, req.agent_id,
                          PROTOCOL_VERSION, JDict(EmptyDict)),
           Response(FALSE, NOT_REGISTERED, "Session not found", EmptyDict, FALSE, 0,
                    FALSE, None, req.session_id),
           "session_not_found")

\* Lines 272-282.
reject_session_not_found(st, req) ==
    Result(st,
           Response(FALSE, NOT_REGISTERED, "Session not found", EmptyDict, FALSE, 0,
                    FALSE, None, req.session_id),
           "session_not_found")

\* The refusal is logged against the session.
reject_plugin_missing_logged(st, req, snapshot) ==
    Result(append_log(st, req.session_id,
                      Entry(req, Null, Null, Null, FALSE, snapshot.turn_number)),
           Response(FALSE, INTERNAL_ERROR, "Plugin could not be loaded", EmptyDict,
                    FALSE, snapshot.turn_number,
                    snapshot.canonical_state.game_over,
                    snapshot.canonical_state.winner, req.session_id),
           "plugin_missing")

\* Lines 286-296.
reject_plugin_missing(st, req, snapshot) ==
    Result(st,
           Response(FALSE, INTERNAL_ERROR, "Plugin could not be loaded", EmptyDict,
                    FALSE, snapshot.turn_number,
                    snapshot.canonical_state.game_over,
                    snapshot.canonical_state.winner, req.session_id),
           "plugin_missing")

\* Lines 70-169.
handle_framework_command(st, req, meta, snapshot) ==
    LET turn_number == snapshot.turn_number
        state == snapshot.canonical_state
        session_id == meta.session_id
        answer(ok, code, message, data) ==
            Response(ok, code, message, data, FALSE, turn_number,
                     state.game_over, state.winner, session_id)
    IN CASE req.command = "ping" ->
              answer(TRUE, OK, "pong", [protocol_version |-> PROTOCOL_VERSION])
         [] req.command = "schema" ->
              answer(TRUE, OK, "Schema information",
                     [protocol_version |-> PROTOCOL_VERSION,
                      request_fields |-> <<"session_id", "agent_id", "command",
                                           "args", "reason">>,
                      response_fields |-> <<"ok", "code", "message", "data",
                                            "turn_advanced", "turn_number",
                                            "game_over", "winner", "session_id">>,
                      standard_commands |-> STANDARD_COMMANDS])
         [] req.command = "history" ->
              answer(TRUE, OK, "History retrieved",
                     [turns |-> list_turns(st, session_id)])
         [] req.command = "latest" ->
              answer(TRUE, OK, "Latest snapshot retrieved",
                     [snapshot |-> snapshot])
         [] OTHER ->
              LET requested_turn == Get(req.args, "turn_number", JInt(turn_number))
              IN IF ~IsInt(requested_turn)
                 THEN \* f"{turn_number:04d}" of a value that is no integer
                      Raise(IF requested_turn.t = "null" THEN "TypeError"
                            ELSE "ValueError")
                 ELSE IF ~turn_exists(st, session_id, requested_turn.v)
                 THEN answer(FALSE, INVALID_ARGS, "Turn not found", EmptyDict)
                 ELSE answer(TRUE, OK, "Turn view retrieved",
                             [snapshot |-> read_turn(st, session_id,
                                                     requested_turn.v)])

\* Lines 302-315.
answer_framework(st, req, meta, snapshot, pre_hash) ==
    LET resp == handle_framework_command(st, req, meta, snapshot)
    IN IF resp.raised THEN Result(st, resp, "framework")
       ELSE Result(append_log(st, req.session_id,
                              Entry(req, resp, pre_hash, pre_hash, FALSE,
                                    snapshot.turn_number)),
                   resp, "framework")

\* The refusal is answered but not logged.
reject_command_unlogged(st, req, snapshot, state, pre_hash, code, message, branch) ==
    Result(st,
           Response(FALSE, code, message, EmptyDict, FALSE, snapshot.turn_number,
                    state.game_over, state.winner, req.session_id),
           branch)

\* The refusal is logged with the hash of an empty state as post_hash.
reject_command_rehashed(st, req, snapshot, state, pre_hash, code, message, branch) ==
    LET resp == Response(FALSE, code, message, EmptyDict, FALSE,
                         snapshot.turn_number, state.game_over, state.winner,
                         req.session_id)
    IN Result(append_log(st, req.session_id,
                         Entry(req, resp, pre_hash, state_hash(EmptyDict), FALSE,
                               snapshot.turn_number)),
              resp, branch)

\* Lines 317-339 (code UNKNOWN_COMMAND) and 341-364 (code NOT_SUPPORTED).
reject_command(st, req, snapshot, state, pre_hash, code, message, branch) ==
    LET resp == Response(FALSE, code, message, EmptyDict, FALSE,
                         snapshot.turn_number, state.game_over, state.winner,
                         req.session_id)
    IN Result(append_log(st, req.session_id,
                         Entry(req, resp, pre_hash, pre_hash, FALSE,
                               snapshot.turn_number)),
              resp, branch)

\* execute is handed the dispatcher's own state object.
state_after_execute_handed(state, res) == res.handed

\* Line 370: execute is handed deepcopy(state), so the dispatcher's own state
\* keeps its value whatever the plugin does to the object it was handed.
state_after_execute(state, res) == state

\* The exception's message is replaced by a fixed text.
answer_plugin_raised_mute(st, req, snapshot, state, pre_hash, res) ==
    LET resp == Response(FALSE, INTERNAL_ERROR, "Internal error", EmptyDict, FALSE,
                         snapshot.turn_number, state.game_over, state.winner,
                         req.session_id)
    IN Result(append_log(st, req.session_id,
                         Entry(req, resp, pre_hash, pre_hash, FALSE,
                               snapshot.turn_number)),
              resp, "plugin_raised")

\* Lines 378-400.
answer_plugin_raised(st, req, snapshot, state, pre_hash, res) ==
    LET resp == Response(FALSE, INTERNAL_ERROR, res.message, EmptyDict, FALSE,
                         snapshot.turn_number, state.game_over, state.winner,
                         req.session_id)
    IN Result(append_log(st, req.session_id,
                         Entry(req, resp, pre_hash, pre_hash, FALSE,
                               snapshot.turn_number)),
              resp, "plugin_raised")

\* The turn advances whether or not the command is an action.
advances_any(action, res) == res.action_succeeded /\ res.code = OK

\* The turn advances whatever code the plugin returned.
advances_despite_code(action, res) == action /\ res.action_succeeded

\* Line 408.
advances(action, res) == action /\ res.action_succeeded /\ res.code = OK

\* The turn number skips one.
next_turn_number_skipping(current_turn) == current_turn + 2

\* The turn keeps its number.
next_turn_number_staying(current_turn) == current_turn

\* Line 420.
next_turn_number(current_turn) == current_turn + 1

\* Lines 410-419.
action_event(req, final_state) ==
    [type |-> "action",
     command |-> req.command,
     reason |-> req.reason,
     args |-> req.args,
     actor |-> "agent",
     move |-> Get(final_state, "last_move", Null)]

\* Lines 426-432.
opponent_event(final_state) ==
    [type |-> "opponent_step", actor |-> "opponent", move |-> final_state.last_move]

\* Lines 422-432: the opponent's reply, and the events of the turn.
\* final_state.get("last_move", {}).get("player") raises AttributeError when
\* last_move is None.
\* The opponent's event is put before the agent's.
replied_turn_reversed(first, replied, last_move) ==
    IF last_move = Null
    THEN [raised |-> TRUE]
    ELSE [raised |-> FALSE,
          final_state |-> replied,
          events |-> IF Get(last_move, "player", None) = "opponent"
                     THEN <<opponent_event(replied)>> \o first
                     ELSE first]

\* Lines 423-432: the events of the turn once the opponent has stepped.
replied_turn(first, replied, last_move) ==
    IF last_move = Null
    THEN [raised |-> TRUE]
    ELSE [raised |-> FALSE,
          final_state |-> replied,
          events |-> IF Get(last_move, "player", None) = "opponent"
                     THEN Append(first, opponent_event(replied))
                     ELSE first]

\* Line 425.
with_reply(first, replied) ==
    replied_turn(first, replied, Get(replied, "last_move", EmptyDict))

after_opponent(p, o, req, moved, final_turn_number) ==
    IF moved.game_over
    THEN [raised |-> FALSE, final_state |-> moved,
          events |-> <<action_event(req, moved)>>]
    ELSE with_reply(<<action_event(req, moved)>>,
                    [opponent_step(p, o, moved)
                        EXCEPT !.turn_number = final_turn_number])

\* The entry of an advancing call repeats pre_hash as its post_hash.
commit_turn_unhashed(st, p, req, res, pre_hash, final_turn_number, turn) ==
    IF turn.raised THEN Result(st, Raise("AttributeError"), "advanced")
    ELSE
    LET final_state == turn.final_state
        st1 == write_turn_snapshot(st, req.session_id, final_turn_number,
                   final_state,
                   generate_agent_view(p, final_state),
                   generate_human_view(p, final_state),
                   turn.events)
        resp == Response(res.code = OK, res.code, res.message, res.data, TRUE,
                         final_turn_number, final_state.game_over,
                         final_state.winner, req.session_id)
    IN Result(append_log(st1, req.session_id,
                         Entry(req, resp, pre_hash, pre_hash,
                               TRUE, resp.turn_number)),
              resp, "advanced")

\* The envelope reports the game as execute left it, before the opponent's
\* reply.
commit_turn_before_reply(st, p, req, res, pre_hash, final_turn_number, turn) ==
    IF turn.raised THEN Result(st, Raise("AttributeError"), "advanced")
    ELSE
    LET final_state == turn.final_state
        st1 == write_turn_snapshot(st, req.session_id, final_turn_number,
                   final_state,
                   generate_agent_view(p, final_state),
                   generate_human_view(p, final_state),
                   turn.events)
        resp == Response(res.code = OK, res.code, res.message, res.data, TRUE,
                         final_turn_number, res.new_state.game_over,
                         res.new_state.winner, req.session_id)
    IN Result(append_log(st1, req.session_id,
                         Entry(req, resp, pre_hash, state_hash(final_state),
                               TRUE, resp.turn_number)),
              resp, "advanced")

\* Lines 433-467, when the turn advances.
commit_turn(st, p, req, res, pre_hash, final_turn_number, turn) ==
    IF turn.raised THEN Result(st, Raise("AttributeError"), "advanced")
    ELSE
    LET final_state == turn.final_state
        st1 == write_turn_snapshot(st, req.session_id, final_turn_number,
                   final_state,
                   generate_agent_view(p, final_state),
                   generate_human_view(p, final_state),
                   turn.events)
        resp == Response(res.code = OK, res.code, res.message, res.data, TRUE,
                         final_turn_number, final_state.game_over,
                         final_state.winner, req.session_id)
    IN Result(append_log(st1, req.session_id,
                         Entry(req, resp, pre_hash, state_hash(final_state),
                               TRUE, resp.turn_number)),
              resp, "advanced")

\* The envelope of a call that wrote no turn carries turn number 0.
answer_without_turn_zero(st, req, res, state, pre_hash, action, current_turn) ==
    LET final_state == IF ~action THEN res.new_state ELSE state
        resp == Response(res.code = OK, res.code, res.message, res.data, FALSE,
                         0, final_state.game_over, final_state.winner,
                         req.session_id)
    IN Result(append_log(st, req.session_id,
                         Entry(req, resp, pre_hash, state_hash(state), FALSE,
                               resp.turn_number)),
              resp, IF action THEN "action_failed" ELSE "informed")

\* The envelope of a call that wrote no turn counts the lines of the log.
answer_without_turn_counting(st, req, res, state, pre_hash, action, current_turn) ==
    LET final_state == IF ~action THEN res.new_state ELSE state
        resp == Response(res.code = OK, res.code, res.message, res.data, FALSE,
                         Len(st[req.session_id].log), final_state.game_over,
                         final_state.winner, req.session_id)
    IN Result(append_log(st, req.session_id,
                         Entry(req, resp, pre_hash, state_hash(state), FALSE,
                               resp.turn_number)),
              resp, IF action THEN "action_failed" ELSE "informed")

\* Lines 442-467, when it does not.
answer_without_turn(st, req, res, state, pre_hash, action, current_turn) ==
    LET final_state == IF ~action THEN res.new_state ELSE state
        resp == Response(res.code = OK, res.code, res.message, res.data, FALSE,
                         current_turn, final_state.game_over,
                         final_state.winner, req.session_id)
    IN Result(append_log(st, req.session_id,
                         Entry(req, resp, pre_hash, state_hash(state), FALSE,
                               resp.turn_number)),
              resp, IF action THEN "action_failed" ELSE "informed")

\* Lines 366-377: the call of plugin.execute.
call_execute(p, o, req, snapshot, state) ==
    execute(p, o, req.command, req.args, state,
            [session_id |-> req.session_id,
             agent_id |-> req.agent_id,
             reason |-> req.reason,
             turn_number |-> snapshot.turn_number])

\* Lines 378 and 408-443: where a call of execute leads.
plugin_branch(action, res) ==
    IF res.raised THEN "plugin_raised"
    ELSE IF advances(action, res) THEN "advanced"
    ELSE IF action THEN "action_failed"
    ELSE "informed"

\* The branch of dispatch a request ends in: the conditions of lines 172-408,
\* in their order.
branch_of(st, reg, raw, o) ==
    IF ~validates(raw) THEN "invalid"
    ELSE LET req == Request(raw)
         IN IF req.command # "register" /\ req.session_id \in {None, ""}
            THEN "no_session_id"
            ELSE IF req.command = "register"
            THEN LET plugin_id == Get(req.args, "plugin_id", JStr(TICTACTOE))
                 IN IF plugin_id.t = "str" /\ plugin_id.v \in reg
                    THEN "registered" ELSE "register_rejected"
            ELSE IF ~session_loads(st, req.session_id)
            THEN "session_not_found"
            ELSE LET loaded == load_session(st, req.session_id)
                     p == loaded.meta.plugin_id
                 IN IF p \notin reg THEN "plugin_missing"
                    ELSE IF req.command \in FRAMEWORK_COMMANDS THEN "framework"
                    ELSE IF req.command \notin STANDARD_COMMANDS
                    THEN "unknown_command"
                    ELSE IF req.command \notin manifest(p).supported_commands
                    THEN "not_supported"
                    ELSE plugin_branch(is_action(p, req.command),
                             call_execute(p, o, req, loaded.snapshot,
                                          loaded.snapshot.canonical_state))

\* Lines 420-467: the turn advances.
advance_turn(st, p, o, req, res, pre_hash, final_turn_number) ==
    commit_turn(st, p, req, res, pre_hash, final_turn_number,
                after_opponent(p, o, req,
                               [res.new_state EXCEPT
                                   !.turn_number = final_turn_number],
                               final_turn_number))

\* Lines 378-467: what follows the call of plugin.execute.
after_execute(st, p, o, req, snapshot, state, pre_hash, action, res) ==
    IF res.raised
    THEN answer_plugin_raised(st, req, snapshot, state, pre_hash, res)
    ELSE IF advances(action, res)
    THEN advance_turn(st, p, o, req, res, pre_hash,
                      next_turn_number(snapshot.turn_number))
    ELSE answer_without_turn(st, req, res, state, pre_hash, action,
                             snapshot.turn_number)

\* Lines 366-467: the request reaches the plugin.
run_plugin(st, p, o, req, snapshot, state0, pre_hash, res) ==
    after_execute(st, p, o, req, snapshot, state_after_execute(state0, res),
                  pre_hash, is_action(p, req.command), res)

\* Lines 284-467: the session is loaded (state is deepcopy of the snapshot's
\* canonical state, pre_hash its hash).
serve_session(st, req, o, branch, meta, snapshot, state, pre_hash) ==
    CASE branch = "plugin_missing" -> reject_plugin_missing(st, req, snapshot)
      [] branch = "framework" ->
           answer_framework(st, req, meta, snapshot, pre_hash)
      [] branch = "unknown_command" ->
           reject_command(st, req, snapshot, state, pre_hash, UNKNOWN_COMMAND,
                          "Unknown command", branch)
      [] branch = "not_supported" ->
           reject_command(st, req, snapshot, state, pre_hash, NOT_SUPPORTED,
                          "Command is not supported", branch)
      [] OTHER ->
           run_plugin(st, meta.plugin_id, o, req, snapshot, state, pre_hash,
                      call_execute(meta.plugin_id, o, req, snapshot, state))

\* Lines 270-300.
with_session(st, req, o, branch, loaded) ==
    serve_session(st, req, o, branch, loaded.meta, loaded.snapshot,
                  loaded.snapshot.canonical_state,
                  state_hash(loaded.snapshot.canonical_state))

\* Lines 171-282, for a request that ends in the given branch.
route(st, reg, raw, req, o, fresh, branch) ==
    CASE branch = "invalid" -> reject_invalid(st, raw)
      [] branch = "no_session_id" -> reject_no_session_id(st)
      [] branch \in {"registered", "register_rejected"} ->
           register(st, reg, req, fresh)
      [] branch = "session_not_found" -> reject_session_not_found(st, req)
      [] OTHER ->
           with_session(st, req, o, branch, load_session(st, req.session_id))

\* Lines 171-467: dispatch(raw_request), with the registry reg of the
\* Dispatcher, the script o of a scripted plugin, and the identifier fresh that
\* uuid4 would return.
dispatch(st, reg, raw, o, fresh) ==
    route(st, reg, raw, Request(raw), o, fresh, branch_of(st, reg, raw, o))

-----------------------------------------------------------------------------
(* The requests a caller hands to dispatch.                                *)

\* The identifiers uuid4 may return.
SessionIds == {"s1", "s2"}

AGENT == "agent-1"

Raw(session_id, command, args) ==
    [session_id |-> session_id,
     agent_id |-> JStr(AGENT),
     command |-> JStr(command),
     args |-> JDict(args),
     reason |-> JStr("because"),
     extra |-> FALSE]

Move(x, y) == [x |-> JInt(x), y |-> JInt(y)]

\* Moves on every cell, beside the board, with a coordinate that is no
\* integer, and with none at all.
MoveArgs ==
    {Move(x, y) : x \in Idx, y \in Idx}
    \cup {Move(3, 0), Move(0, -1), [x |-> JStr("0"), y |-> JInt(0)], EmptyDict}

\* The largest turn number a view asks for.
MaxViewTurn == 3

ViewArgs == {EmptyDict} \cup {[turn_number |-> JInt(k)] : k \in -1 .. MaxViewTurn}

RegisterArgs ==
    {EmptyDict, [plugin_id |-> JStr(TICTACTOE)], [plugin_id |-> JStr(SCRIPTED)],
     [plugin_id |-> JStr("chess")], [plugin_id |-> JNull]}

\* Arguments of another type than the dispatcher expects: a turn_number that
\* is a string, a float or null, and a plugin_id that is a mapping.
OddViewArgs ==
    {[turn_number |-> JStr("1")], [turn_number |-> JFloat("1.5")],
     [turn_number |-> JNull]}

OddRegisterArgs == {[plugin_id |-> JDict(EmptyDict)]}

\* <<command, args>>
Calls ==
    {<<"register", a>> : a \in RegisterArgs}
    \cup {<<c, EmptyDict>> : c \in {"ping", "schema", "history", "latest",
                                   "rules", "status", "agent_view",
                                   "reset", "dance"}}
    \cup {<<"view", a>> : a \in ViewArgs}
    \cup {<<"move", a>> : a \in MoveArgs}

SessionIdValues == {JStr(s) : s \in SessionIds} \cup {JMissing, JNull, JStr("")}

\* Every request that passes validation with the usual agent and reason.
ValidRaws == {Raw(s, c[1], c[2]) : s \in SessionIdValues, c \in Calls}

\* The ways a request fails validation.
Malformed(raw) ==
    {[raw EXCEPT !.reason = JMissing],
     [raw EXCEPT !.reason = JInt(7)],
     [raw EXCEPT !.agent_id = JMissing],
     [raw EXCEPT !.agent_id = JInt(7)],
     [raw EXCEPT !.command = JMissing],
     [raw EXCEPT !.command = JInt(7)],
     [raw EXCEPT !.session_id = JInt(7)],
     [raw EXCEPT !.args = JStr("x")],
     [raw EXCEPT !.args = JNull],
     [raw EXCEPT !.extra = TRUE]}

InvalidRaws == UNION {Malformed(raw) : raw \in ValidRaws}

Raws == ValidRaws \cup InvalidRaws

\* Requests that pass validation with such arguments.
OddRaws ==
    {Raw(s, "view", a) : s \in SessionIdValues, a \in OddViewArgs}
    \cup {Raw(s, "register", a) : s \in SessionIdValues, a \in OddRegisterArgs}

\* The scripts the behaviours take.
StepScripts ==
    {[exec |-> e, opp |-> "pass"] : e \in {"ok", "ok_ends", "reject_inplace", "raise"}}
    \cup {[exec |-> "ok", opp |-> "reply"]}

NoScript == [exec |-> "ok", opp |-> "pass"]

\* The scripts that matter to a request: those of the scripted plugin, when
\* the request reaches it.
reaches_plugin(st, reg, raw) ==
    branch_of(st, reg, raw, NoScript) \in
        {"plugin_raised", "advanced", "action_failed", "informed"}

ScriptsFor(st, reg, raw, scripts) ==
    IF /\ reaches_plugin(st, reg, raw)
       /\ read_meta(st, raw.session_id.v).plugin_id = SCRIPTED
    THEN scripts ELSE {NoScript}

\* The identifiers uuid4 may return to a request: any that names no session.
FreshFor(st, raw, ids) ==
    IF validates(raw) /\ raw.command.v = "register" THEN ids \ Sessions(st)
    ELSE {None}

-----------------------------------------------------------------------------
(* The state machine.                                                      *)

\* The lines of the audit log of session s, decoded.
LogOf(st, s) == [i \in 1 .. Len(st[s].log) |-> json_loads(st[s].log[i])]

RECURSIVE SumOver(_, _)
SumOver(f, S) ==
    IF S = {} THEN 0
    ELSE LET s == CHOOSE x \in S : TRUE IN f[s] + SumOver(f, S \ {s})

\* The number of log lines in the store, and of those of calls that neither
\* registered nor advanced a turn.
Lines(st) == SumOver([s \in Sessions(st) |-> Len(st[s].log)], Sessions(st))

IdleLines(st) ==
    SumOver([s \in Sessions(st) |->
                Cardinality({i \in 1 .. Len(st[s].log) :
                    /\ ~json_loads(st[s].log[i]).turn_advanced
                    /\ json_loads(st[s].log[i]).request.command # "register"})],
            Sessions(st))

\* The audit logs hold at most MaxLog lines in all.
MaxLog == 2

WithinLog == Lines(store) < MaxLog

\* A game is played move by move, and then at most GameIdle calls follow that
\* do not advance it; a rejected move is the last request sent once more.
GameIdle == 1

Idle == IdleLines(store) < GameIdle

\* The request of the last call, when it is one of raws.
Again(raws) == {raw \in raws : raw = request}

\* One call of dispatch that ends in the given branch.
Call(branch, raws, ids, within) ==
    /\ within
    /\ \E raw \in raws : \E o \in ScriptsFor(store, plugins, raw, StepScripts) :
        /\ branch_of(store, plugins, raw, o) = branch
        /\ \E fresh \in FreshFor(store, raw, ids) :
             \E r \in {dispatch(store, plugins, raw, o, fresh)} :
                /\ store' = r.store
                /\ request' = raw
                /\ response' = r.response

RejectInvalid(raws, ids, within) ==
    Call("invalid", raws, ids, within) /\ UNCHANGED <<plugins, calls>>
RejectNoSessionId(raws, ids, within) ==
    Call("no_session_id", raws, ids, within) /\ UNCHANGED <<plugins, calls>>
RejectRegister(raws, ids, within) ==
    Call("register_rejected", raws, ids, within) /\ UNCHANGED <<plugins, calls>>
Register(raws, ids, within) ==
    Call("registered", raws, ids, within) /\ UNCHANGED <<plugins, calls>>
RejectSessionNotFound(raws, ids, within) ==
    Call("session_not_found", raws, ids, within) /\ UNCHANGED <<plugins, calls>>
RejectPluginMissing(raws, ids, within) ==
    Call("plugin_missing", raws, ids, within) /\ UNCHANGED <<plugins, calls>>
AnswerFramework(raws, ids, within) ==
    Call("framework", raws, ids, within) /\ UNCHANGED <<plugins, calls>>
RejectUnknownCommand(raws, ids, within) ==
    Call("unknown_command", raws, ids, within) /\ UNCHANGED <<plugins, calls>>
RejectNotSupported(raws, ids, within) ==
    Call("not_supported", raws, ids, within) /\ UNCHANGED <<plugins, calls>>
PluginRaised(raws, ids, within) ==
    Call("plugin_raised", raws, ids, within) /\ UNCHANGED <<plugins, calls>>
Inform(raws, ids, within) ==
    Call("informed", raws, ids, within) /\ UNCHANGED <<plugins, calls>>
ActionFailed(raws, ids, within) ==
    Call("action_failed", raws, ids, within) /\ UNCHANGED <<plugins, calls>>
AdvanceTurn(raws, ids, within) ==
    Call("advanced", raws, ids, within) /\ UNCHANGED <<plugins, calls>>

\* Dispatcher.__init__ (lines 31-33): a Dispatcher over the same session
\* directory with another plugin registry.
Registries == {AllPlugins, {TICTACTOE}}

Restart ==
    /\ plugins' \in Registries \ {plugins}
    /\ UNCHANGED <<store, request, response, calls>>

\* The requests the behaviours take.
StepCalls ==
    {<<c, EmptyDict>> : c \in {"history", "status", "reset", "dance"}}
    \cup {<<"move", a>> : a \in {Move(0, 0), Move(1, 1), Move(2, 2)}}

StepRaws ==
    {Raw(JStr(s), c[1], c[2]) : s \in SessionIds, c \in StepCalls}
    \cup {Raw(JMissing, "register", a) :
            a \in {EmptyDict, [plugin_id |-> JStr(SCRIPTED)],
                   [plugin_id |-> JStr("chess")]}}
    \cup {Raw(JMissing, "status", EmptyDict),
          [Raw(JMissing, "register", EmptyDict) EXCEPT !.reason = JMissing],
          [Raw(JStr("s1"), "status", EmptyDict) EXCEPT !.extra = TRUE]}

Init ==
    /\ store = <<>>
    /\ plugins = AllPlugins
    /\ request = Null
    /\ response = Null
    /\ calls = NoCalls

Next ==
    \/ RejectInvalid(StepRaws, SessionIds, WithinLog)
    \/ RejectNoSessionId(StepRaws, SessionIds, WithinLog)
    \/ RejectRegister(StepRaws, SessionIds, WithinLog)
    \/ Register(StepRaws, SessionIds, WithinLog)
    \/ RejectSessionNotFound(StepRaws, SessionIds, WithinLog)
    \/ RejectPluginMissing(StepRaws, SessionIds, WithinLog)
    \/ AnswerFramework(StepRaws, SessionIds, WithinLog)
    \/ RejectUnknownCommand(StepRaws, SessionIds, WithinLog)
    \/ RejectNotSupported(StepRaws, SessionIds, WithinLog)
    \/ PluginRaised(StepRaws, SessionIds, WithinLog)
    \/ Inform(StepRaws, SessionIds, WithinLog)
    \/ ActionFailed(StepRaws, SessionIds, WithinLog)
    \/ AdvanceTurn(StepRaws, SessionIds, WithinLog)
    \/ Restart

Spec == Init /\ [][Next]_vars

(* A tic-tac-toe game played to its end in one session, under the registry *)
(* load_plugins finds.                                                     *)

GameIds == {"s1"}

GameRaws ==
    {Raw(JMissing, "register", EmptyDict)}
    \cup {Raw(JStr(s), "move", Move(x, y)) : s \in GameIds, x \in Idx, y \in Idx}
    \cup {Raw(JStr(s), c, EmptyDict) : s \in GameIds, c \in {"history", "latest"}}
    \cup {Raw(JStr(s), "view", [turn_number |-> JInt(k)]) :
            s \in GameIds, k \in {-1, 0}}

InitGame ==
    /\ store = <<>>
    /\ plugins = {TICTACTOE}
    /\ request = Null
    /\ response = Null
    /\ calls = NoCalls

NextGame ==
    \/ Register(GameRaws, GameIds, TRUE)
    \/ AnswerFramework(GameRaws, GameIds, Idle)
    \/ ActionFailed(Again(GameRaws), GameIds, Idle)
    \/ AdvanceTurn(GameRaws, GameIds, IdleLines(store) = 0)

SpecGame == InitGame /\ [][NextGame]_vars

(* One session of either plugin, under a Dispatcher that may be started     *)
(* again with a smaller registry.                                          *)

SoloIds == {"s1"}

SoloCalls ==
    {<<c, EmptyDict>> : c \in {"history", "latest", "rules", "status", "reset",
                                "dance"}}
    \cup {<<"move", a>> : a \in {Move(0, 0), Move(1, 1), Move(3, 0)}}

SoloRaws ==
    {Raw(JStr(s), c[1], c[2]) : s \in SoloIds, c \in SoloCalls}
    \cup {Raw(JMissing, "register", a) :
            a \in {EmptyDict, [plugin_id |-> JStr(SCRIPTED)]}}

\* The requests sent to a session whose plugin the registry has lost.
SoloOrphanRaws ==
    {Raw(JStr(s), c, EmptyDict) :
        s \in SoloIds, c \in {"history", "latest", "status", "reset", "dance"}}

\* Requests that are refused before a session is looked up.
SoloStrayRaws ==
    {Raw(JMissing, "status", EmptyDict),
     Raw(JNull, "history", EmptyDict),
     [Raw(JStr("s1"), "status", EmptyDict) EXCEPT !.reason = JMissing],
     [Raw(JStr("s1"), "move", Move(0, 0)) EXCEPT !.command = JMissing]}

NextSolo ==
    \/ RejectInvalid(SoloStrayRaws, SoloIds, WithinLog)
    \/ RejectNoSessionId(SoloStrayRaws, SoloIds, WithinLog)
    \/ Register(SoloRaws, SoloIds, WithinLog)
    \/ RejectPluginMissing(SoloOrphanRaws, SoloIds, WithinLog)
    \/ AnswerFramework(SoloRaws, SoloIds, WithinLog)
    \/ RejectUnknownCommand(SoloRaws, SoloIds, WithinLog)
    \/ RejectNotSupported(SoloRaws, SoloIds, WithinLog)
    \/ PluginRaised(SoloRaws, SoloIds, WithinLog)
    \/ Inform(SoloRaws, SoloIds, WithinLog)
    \/ ActionFailed(SoloRaws, SoloIds, WithinLog)
    \/ AdvanceTurn(SoloRaws, SoloIds, WithinLog)
    \/ Restart

SpecSolo == Init /\ [][NextSolo]_vars

(* One session in which a request that does not advance the turn is sent,  *)
(* and then sent again.                                                    *)

\* The next request: any, or the last one once more after a call that did not
\* advance the turn.
FirstOrAgain(raws) == IF IdleLines(store) = 0 THEN raws ELSE Again(raws)

Retrying == IdleLines(store) <= GameIdle

NextRetry ==
    \/ Register(SoloRaws, SoloIds, Lines(store) = 0)
    \/ AdvanceTurn(SoloRaws, SoloIds, Lines(store) = 1)
    \/ AnswerFramework(FirstOrAgain(SoloRaws), SoloIds, Retrying)
    \/ RejectUnknownCommand(FirstOrAgain(SoloRaws), SoloIds, Retrying)
    \/ RejectNotSupported(FirstOrAgain(SoloRaws), SoloIds, Retrying)
    \/ PluginRaised(FirstOrAgain(SoloRaws), SoloIds, Retrying)
    \/ Inform(FirstOrAgain(SoloRaws), SoloIds, Retrying)
    \/ ActionFailed(FirstOrAgain(SoloRaws), SoloIds, Retrying)

SpecRetry == Init /\ [][NextRetry]_vars

(* stable_json_dumps and state_hash applied to two dicts that hold the same *)
(* mapping.                                                                *)

\* The deepest nesting of the dicts encoded.
MaxDepth == 2

Leaves == {JStr("x")}

\* The sequences of distinct keys: the orders in which a dict may be filled.
KeySeqs ==
    {ks \in UNION {[1 .. n -> Keys] : n \in 0 .. Len(KeyOrder)} :
        \A i, j \in DOMAIN ks : ks[i] = ks[j] => i = j}

\* The dicts whose values are among values, at most one of them a dict.
PyDicts(values) ==
    UNION {{PyDict([i \in DOMAIN ks |-> <<ks[i], vs[i]>>]) :
                vs \in {f \in [DOMAIN ks -> values] :
                          \A i, j \in DOMAIN ks :
                              (f[i].t = "pydict" /\ f[j].t = "pydict") => i = j}} :
           ks \in KeySeqs}

RECURSIVE PyValues(_)
PyValues(depth) ==
    IF depth = 0 THEN Leaves ELSE Leaves \cup PyDicts(PyValues(depth - 1))

\* The dicts that hold what obj holds, filled in any order at every depth.
RECURSIVE Reorderings(_)
Reorderings(obj) ==
    IF obj.t # "pydict" THEN {obj}
    ELSE {PyDict([i \in DOMAIN ks |-> <<ks[i], vs[ks[i]]>>]) :
            ks \in {s \in KeySeqs :
                      {s[i] : i \in DOMAIN s} = KeysOf(obj.items)},
            vs \in {f \in [KeysOf(obj.items) ->
                              UNION {Reorderings(ValueAt(obj.items, k)) :
                                        k \in KeysOf(obj.items)}] :
                      \A k \in KeysOf(obj.items) :
                          f[k] \in Reorderings(ValueAt(obj.items, k))}}

\* A dict, and one that holds the same mapping or is empty.
EncodedPairs ==
    UNION {{[first |-> a, second |-> b] :
                b \in Reorderings(a) \cup {PyDict(<<>>)}} :
           a \in PyDicts(PyValues(MaxDepth - 1))}

InitEncode ==
    /\ store = <<>>
    /\ plugins = AllPlugins
    /\ request \in EncodedPairs
    /\ response = Null
    /\ calls = NoCalls

Encode ==
    /\ response = Null
    /\ response' = [first |-> stable_json_dumps_text(request.first),
                    second |-> stable_json_dumps_text(request.second),
                    first_hash |-> state_hash_text(request.first),
                    second_hash |-> state_hash_text(request.second)]
    /\ UNCHANGED <<store, plugins, request, calls>>

NextEncode == Encode

SpecEncode == InitEncode /\ [][NextEncode]_vars

(* Two threads call dispatch on the same session at once. The dispatcher   *)
(* holds no lock, so the calls interleave between the file operations of   *)
(* the session store: the load of the latest turn, the write of the new    *)
(* turn, and the append to the audit log.                                  *)

RaceIds == {"s1"}

RaceArgs ==
    {Move(0, 0), Move(2, 0), Move(1, 1), Move(0, 2), Move(2, 2), Move(3, 0)}

RaceRaws ==
    {Raw(JMissing, "register", EmptyDict)}
    \cup {Raw(JStr(s), "move", a) : s \in RaceIds, a \in RaceArgs}

NoneCalling == \A t \in Threads : calls[t].at = "idle"

\* Lines 171-300: the request is validated and the session loaded.
Load(t) ==
    /\ calls[t].at = "idle"
    /\ \E raw \in RaceRaws :
        /\ validates(raw)
        /\ Request(raw).command # "register"
        /\ session_loads(store, Request(raw).session_id)
        /\ calls' = [calls EXCEPT ![t] =
               [at |-> "loaded",
                raw |-> raw,
                loaded |-> load_session(store, Request(raw).session_id)]]
    /\ UNCHANGED <<store, plugins, request, response>>

\* What lines 366-467 do to the store of now with the session loaded before.
Served(st, p, req, snapshot, state) ==
    run_plugin(st, p, NoScript, req, snapshot, state, state_hash(state),
               call_execute(p, NoScript, req, snapshot, state))

ServedBy(t) ==
    Served(store, calls[t].loaded.meta.plugin_id, Request(calls[t].raw),
           calls[t].loaded.snapshot, calls[t].loaded.snapshot.canonical_state)

\* The threads that have written a turn.
Writers ==
    {u \in Threads : calls[u].at \in {"executed", "returned"} /\ calls[u].wrote}

\* Lines 366-455: the plugin executes and, when the turn advances, the new
\* turn is written.
Execute(t) ==
    /\ calls[t].at = "loaded"
    /\ \E r \in {ServedBy(t)} : \E s \in {Request(calls[t].raw).session_id} :
        /\ store' = [store EXCEPT ![s].turns = r.store[s].turns]
        /\ calls' = [calls EXCEPT ![t] =
               [at |-> "executed",
                raw |-> calls[t].raw,
                loaded |-> calls[t].loaded,
                wrote |-> r.response.turn_advanced,
                after |-> Writers,
                entry |-> json_loads(r.store[s].log[Len(r.store[s].log)]),
                response |-> r.response]]
    /\ UNCHANGED <<plugins, request, response>>

\* Lines 456-467: the audit entry is appended and the envelope returned.
Log(t) ==
    /\ calls[t].at = "executed"
    /\ store' = append_log(store, Request(calls[t].raw).session_id,
                           calls[t].entry)
    /\ calls' = [calls EXCEPT ![t].at = "returned"]
    /\ request' = calls[t].raw
    /\ response' = calls[t].response
    /\ UNCHANGED plugins

NextRace ==
    \/ Register(RaceRaws, RaceIds, NoneCalling /\ Lines(store) = 0)
    \/ AdvanceTurn(RaceRaws, RaceIds, NoneCalling /\ WithinLog)
    \/ \E t \in Threads : Load(t)
    \/ \E t \in Threads : Execute(t)
    \/ \E t \in Threads : Log(t)

SpecRace == InitGame /\ [][NextRace]_vars

(* One session of either plugin, played on for a few turns: long enough    *)
(* for the opponent of tic-tac-toe to win.                                 *)

EndsRaws ==
    {Raw(JMissing, "register", a) :
        a \in {EmptyDict, [plugin_id |-> JStr(SCRIPTED)]}}
    \cup {Raw(JStr(s), "move", Move(x, y)) : s \in GameIds, x \in Idx, y \in Idx}
    \cup {Raw(JStr(s), "status", EmptyDict) : s \in GameIds}

\* A scripted plugin takes no notice of where a move goes: one move stands
\* for all.
PlayedRaws ==
    IF \E s \in Sessions(store) : read_meta(store, s).plugin_id = SCRIPTED
    THEN {raw \in EndsRaws :
            raw.command.v = "move" => raw.args.v = Move(0, 0)}
    ELSE EndsRaws

\* The log holds the register and at most MaxLog + 1 lines more.
WithinGame == Lines(store) < MaxLog + 2

NextEnds ==
    \/ Register(EndsRaws, GameIds, Lines(store) = 0)
    \/ AdvanceTurn(PlayedRaws, GameIds, WithinGame /\ IdleLines(store) = 0)
    \/ Inform(EndsRaws, GameIds, WithinGame /\ Idle)

SpecEnds == Init /\ [][NextEnds]_vars

(* Two sessions side by side under one Dispatcher, each of either plugin,  *)
(* and calls on the one and the other.                                     *)

PairRaws ==
    {Raw(JMissing, "register", a) :
        a \in {EmptyDict, [plugin_id |-> JStr(SCRIPTED)]}}
    \cup {Raw(JStr(s), "move", Move(0, 0)) : s \in SessionIds}

BothOpen == Sessions(store) = SessionIds

NextPair ==
    \/ Register(PairRaws, SessionIds, TRUE)
    \/ AdvanceTurn(PairRaws, SessionIds, BothOpen /\ WithinGame)
    \/ ActionFailed(PairRaws, SessionIds, BothOpen /\ WithinGame /\ Idle)

SpecPair == Init /\ [][NextPair]_vars

(* A tic-tac-toe game whose agent keeps moving: whenever a move on an      *)
(* empty cell is possible, one is eventually made. Moves that are rejected *)
(* may come in between.                                                    *)

\* The game of session s is on, and a call has written a turn of it.
CanMove(s) ==
    /\ s \in Sessions(store)
    /\ ~read_turn(store, s, latest_turn(store, s)).canonical_state.game_over

TurnWritten(s) ==
    /\ s \in Sessions(store)
    /\ latest_turn(store', s) > latest_turn(store, s)

\* Weak fairness of the agent's successful moves: a game that stays on gets
\* another turn. A move is enabled exactly when the game is on (a game that is
\* on has an empty cell, and a move on an empty cell advances the turn), so
\* this is weak fairness of AdvanceTurn with its enabling condition written out.
KeepsMoving ==
    \A s \in GameIds : <>[]CanMove(s) => []<><<TurnWritten(s)>>_vars

NextPlay ==
    \/ Register(GameRaws, GameIds, TRUE)
    \/ ActionFailed(Again(GameRaws), GameIds, Idle)
    \/ AdvanceTurn(GameRaws, GameIds, TRUE)

SpecPlay == InitGame /\ [][NextPlay]_vars /\ KeepsMoving

-----------------------------------------------------------------------------
(* Properties of dispatch. Each is stated of every call of dispatch that can *)
(* follow a reachable state: of the store the call leaves and of what it     *)
(* hands back.                                                              *)

\* A call of dispatch in the current state: the scripts a scripted plugin may
\* follow, the identifiers uuid4 may return, and what the call does.
ScriptsOf(raw) == ScriptsFor(store, plugins, raw, Scripts)
FreshOf(raw) == FreshFor(store, raw, SessionIds)
Outcome(raw, o, fresh) == dispatch(store, plugins, raw, o, fresh)

\* The session a request names, its plugin, and its latest snapshot.
Named(raw) == raw.session_id.v
PluginOf(raw) == read_meta(store, Named(raw)).plugin_id
Latest(s) == read_turn(store, s, latest_turn(store, s))

\* What plugin.execute returns for a request that reaches the plugin.
Executed(raw, o) ==
    call_execute(PluginOf(raw), o, Request(raw), Latest(Named(raw)),
                 Latest(Named(raw)).canonical_state)

\* The last call of dispatch was of this command and returned an envelope.
Answered(command) ==
    /\ request # Null
    /\ validates(request)
    /\ request.command.v = command
    /\ ~response.raised

LastEntry(st, s) == json_loads(st[s].log[Len(st[s].log)])

\* Every valid request on a session identifier, with every command and argument.
SessionRaws == {Raw(JStr(s), c[1], c[2]) : s \in SessionIds, c \in Calls}

Contiguous(st) ==
    \A s \in Sessions(st) :
        /\ DOMAIN st[s].turns # {}
        /\ DOMAIN st[s].turns = 0 .. latest_turn(st, s)

\* C1: after any sequence of completed dispatch calls, every session of the
\* store has turn snapshots numbered exactly 0 .. latest_turn: turn 0 exists,
\* there is no gap and no number above latest_turn. (Stated of the store of
\* every reachable state and of the store any further call leaves.)
C1_TurnsContiguous ==
    /\ Contiguous(store)
    /\ \A raw \in ValidRaws : \A o \in ScriptsOf(raw) : \A fresh \in FreshOf(raw) :
         Contiguous(Outcome(raw, o, fresh).store)

C1_TurnsWritten ==
    /\ Answered("move")
    /\ response.turn_advanced
    /\ \E s \in Sessions(store) : DOMAIN store[s].turns = 0 .. 1

Succeeds(p, command, res) ==
    /\ is_action(p, command)
    /\ ~res.raised
    /\ res.action_succeeded
    /\ res.code = OK

EventsInOrder(events) ==
    /\ Len(events) \in {1, 2}
    /\ events[1].type = "action"
    /\ Len(events) = 2 => events[2].type = "opponent_step"

WritesNextTurn(s, N, r) ==
    /\ ~r.response.raised
    /\ N + 1 \notin DOMAIN store[s].turns
    /\ DOMAIN r.store[s].turns = DOMAIN store[s].turns \cup {N + 1}
    /\ \A k \in DOMAIN store[s].turns : r.store[s].turns[k] = store[s].turns[k]
    /\ r.response.turn_advanced
    /\ r.response.turn_number = N + 1
    /\ read_turn(r.store, s, N + 1).turn_number = N + 1
    /\ EventsInOrder(read_turn(r.store, s, N + 1).events)

Fails(p, command, res) ==
    /\ is_action(p, command)
    /\ ~res.raised
    /\ res.code # OK \/ ~res.action_succeeded

LeavesTurn(s, r) ==
    /\ r.store[s].turns = store[s].turns
    /\ ~r.response.raised
    /\ ~r.response.turn_advanced
    /\ r.response.turn_number = latest_turn(store, s)
    /\ Len(r.store[s].log) = Len(store[s].log) + 1
    /\ LastEntry(r.store, s).pre_hash = state_hash(Latest(s).canonical_state)
    /\ LastEntry(r.store, s).post_hash = LastEntry(r.store, s).pre_hash

\* C3: when an action command fails (execute returns a code other than OK, or
\* action_succeeded false), dispatch writes no turn snapshot, the latest turn
\* and its canonical state are as before, the response has turn_advanced false
\* and the arrival turn number, and the logged post_hash equals the pre_hash,
\* also when the plugin changed the state object it was handed.
C3_FailedActionLeavesTurn ==
    \A raw \in SessionRaws : \A o \in ScriptsOf(raw) :
        (/\ reaches_plugin(store, plugins, raw)
         /\ Fails(PluginOf(raw), raw.command.v, Executed(raw, o)))
        => LeavesTurn(Named(raw), Outcome(raw, o, None))

\* A move the scripted plugin rejected; in the behaviours it changes the state
\* object it is handed whenever it rejects.
C3_RejectedInPlace ==
    /\ Answered("move")
    /\ response.code = INVALID_MOVE
    /\ ~response.turn_advanced
    /\ response.session_id \in Sessions(store)
    /\ read_meta(store, response.session_id).plugin_id = SCRIPTED

MoveRaws(s) == {Raw(JStr(s), "move", Move(x, y)) : x \in Idx, y \in Idx}

Rejected(first, again, code) ==
    /\ ~again.response.raised
    /\ again.response.code = code
    /\ ~again.response.turn_advanced
    /\ again.response.turn_number = first.response.turn_number

Moved(first) == ~first.response.raised /\ first.response.turn_advanced

Repeat(raw, first) == dispatch(first.store, plugins, raw, NoScript, None)

RejectedAfter(raw, first) ==
    Moved(first) =>
        Rejected(first, Repeat(raw, first),
                 IF first.response.game_over THEN GAME_OVER ELSE INVALID_MOVE)

InvalidAfter(raw, first) ==
    Moved(first) => Rejected(first, Repeat(raw, first), INVALID_MOVE)

\* C4: for every reachable tic-tac-toe session state and every move (x, y)
\* that succeeds in it, dispatching the same request once more is rejected
\* with turn_advanced false and the turn number of the first response; the
\* code is INVALID_MOVE when the game goes on after the first move, and
\* GAME_OVER when the first move or the opponent's reply to it ended the game.
C4_RepeatedMoveRejected ==
    \A s \in Sessions(store) : \A raw \in MoveRaws(s) :
        RejectedAfter(raw, Outcome(raw, NoScript, None))

\* C4 as the specification states it: the repeated move is always answered
\* INVALID_MOVE.
C4_RepeatedMoveInvalid ==
    \A s \in Sessions(store) : \A raw \in MoveRaws(s) :
        InvalidAfter(raw, Outcome(raw, NoScript, None))

\* The last two calls were the same move: the first advanced the turn, the
\* second was rejected because the game was over.
C4_RepeatedAfterEnd ==
    /\ Answered("move")
    /\ response.code = GAME_OVER
    /\ \E s \in Sessions(store) :
         /\ Len(store[s].log) >= 2
         /\ LogOf(store, s)[Len(store[s].log) - 1].turn_advanced
         /\ LogOf(store, s)[Len(store[s].log) - 1].request
                = LastEntry(store, s).request

NonActionRaws ==
    {Raw(JStr(s), c, EmptyDict) :
        s \in SessionIds,
        c \in {"rules", "status", "agent_view", "ping", "schema", "history",
               "latest"}}
    \cup {Raw(JStr(s), "view", a) : s \in SessionIds, a \in ViewArgs}

WritesNoTurn(raw, r) ==
    /\ Sessions(r.store) = Sessions(store)
    /\ \A s \in Sessions(store) : r.store[s].turns = store[s].turns
    /\ ~r.response.raised
    /\ ~r.response.turn_advanced
    /\ session_loads(store, Named(raw))
         => r.response.turn_number = latest_turn(store, Named(raw))

\* C5: dispatching a non-action command (the plugin's rules, status or
\* agent_view, or a framework command ping, schema, history, view, latest) in
\* any session state writes no turn snapshot and leaves the latest turn number
\* as it is; the response has turn_advanced false and that turn number.
C5_NonActionWritesNoTurn ==
    \A raw \in NonActionRaws : \A o \in ScriptsOf(raw) :
        WritesNoTurn(raw, Outcome(raw, o, None))

C5_StatusAnswered ==
    /\ Answered("status")
    /\ response.code = OK
    /\ response.session_id \in Sessions(store)
    /\ read_meta(store, response.session_id).plugin_id = SCRIPTED

RefusedInvalid(r) ==
    /\ ~r.response.raised
    /\ r.response.code = INVALID_ARGS
    /\ ~r.response.ok
    /\ ~r.response.turn_advanced
    /\ r.store = store

\* C6: a request that fails protocol validation (reason, agent_id or command
\* missing or not a string, session_id or args of the wrong type, or an unknown
\* extra field) is answered INVALID_ARGS with ok false and turn_advanced false,
\* and the store is left as it was.
C6_InvalidRequestRejected ==
    \A raw \in InvalidRaws : RefusedInvalid(Outcome(raw, NoScript, None))

EmptyReasonRaws == {[raw EXCEPT !.reason = JStr("")] : raw \in ValidRaws}

\* C7: an otherwise valid request whose reason is the empty string is rejected
\* with INVALID_ARGS and changes nothing.
C7_EmptyReasonRejected ==
    \A raw \in EmptyReasonRaws : \A o \in ScriptsOf(raw) : \A fresh \in FreshOf(raw) :
        RefusedInvalid(Outcome(raw, o, fresh))

NamesNoPlugin(raw) ==
    /\ raw.command.v = "register"
    /\ "plugin_id" \in DOMAIN raw.args.v
    /\ raw.args.v.plugin_id.t \in {"str", "null"}
    /\ raw.args.v.plugin_id.t = "str" => raw.args.v.plugin_id.v \notin plugins

NamesNoSession(raw) ==
    /\ raw.command.v # "register"
    /\ \/ raw.session_id.t \in {"missing", "null"}
       \/ raw.session_id.v = ""
       \/ raw.session_id.v \notin Sessions(store)

Refuses(raw, r) ==
    /\ (~r.response.raised /\ r.response.code = NOT_REGISTERED)
         => r.store = store
    /\ (NamesNoPlugin(raw) \/ NamesNoSession(raw))
         => /\ ~r.response.raised
            /\ r.response.code = NOT_REGISTERED
            /\ ~r.response.ok

\* C8: every request answered NOT_REGISTERED leaves the store untouched, and
\* these are so answered: a register naming a plugin_id absent from the
\* registry, a command other than register with no or an empty session_id, and
\* a command naming a session that does not exist.
C8_NotRegisteredLeavesStore ==
    \A raw \in ValidRaws : \A o \in ScriptsOf(raw) : \A fresh \in FreshOf(raw) :
        Refuses(raw, Outcome(raw, o, fresh))

C8_RefusedBesideSession ==
    /\ request # Null
    /\ validates(request)
    /\ NamesNoPlugin(request) \/ NamesNoSession(request)
    /\ ~response.raised
    /\ response.code = NOT_REGISTERED
    /\ Sessions(store) # {}

RegisterRaws ==
    {Raw(s, "register", a) : s \in SessionIdValues, a \in RegisterArgs}

NamesPlugin(raw) ==
    \/ "plugin_id" \notin DOMAIN raw.args.v
    \/ /\ raw.args.v.plugin_id.t = "str"
       /\ raw.args.v.plugin_id.v \in plugins

InitialState(raw) ==
    initialize(Get(raw.args.v, "plugin_id", JStr(TICTACTOE)).v,
               Get(raw.args.v, "options", JDict(EmptyDict)))

Registers(r, sid, initial) ==
    /\ ~r.response.raised
    /\ sid \notin Sessions(store)
    /\ Sessions(r.store) = Sessions(store) \cup {sid}
    /\ \A s \in Sessions(store) : r.store[s] = store[s]
    /\ DOMAIN r.store[sid].turns = {0}
    /\ initial.turn_number = 0
    /\ read_turn(r.store, sid, 0).turn_number = 0
    /\ read_turn(r.store, sid, 0).canonical_state = initial
    /\ Len(read_turn(r.store, sid, 0).events) = 1
    /\ read_turn(r.store, sid, 0).events[1].type = "register"
    /\ Len(r.store[sid].log) = 1
    /\ LastEntry(r.store, sid).pre_hash = Null
    /\ LastEntry(r.store, sid).post_hash = state_hash(initial)
    /\ ~LastEntry(r.store, sid).turn_advanced
    /\ LastEntry(r.store, sid).turn_number = 0
    /\ r.response.ok
    /\ r.response.code = OK
    /\ ~r.response.turn_advanced
    /\ r.response.turn_number = 0
    /\ r.response.session_id = sid

\* C9: a register request naming a registered plugin, or omitting plugin_id,
\* creates exactly one new session under a fresh identifier, writes turn 0 with
\* the plugin's initial state (turn_number 0) and a single register event,
\* appends exactly one audit entry (pre_hash null, post_hash the hash of the
\* initial state, turn_advanced false, turn_number 0), and answers OK with
\* turn_advanced false, turn_number 0 and the new session_id.
C9_RegisterCreatesSession ==
    \A raw \in RegisterRaws : \A fresh \in FreshOf(raw) :
        NamesPlugin(raw)
            => Registers(Outcome(raw, NoScript, fresh), fresh, InitialState(raw))

C9_SecondSessionRegistered ==
    /\ Answered("register")
    /\ response.code = OK
    /\ Cardinality(Sessions(store)) = 2
    /\ Len(store[response.session_id].log) = 1

Ascending(seq) == \A i \in 1 .. Len(seq) - 1 : seq[i] < seq[i + 1]

ListsTurns(s, history) ==
    /\ ~history.response.raised
    /\ history.response.code = OK
    /\ Ascending(history.response.data.turns)
    /\ {history.response.data.turns[i] :
            i \in 1 .. Len(history.response.data.turns)}
         = DOMAIN store[s].turns
    /\ Len(history.response.data.turns) = Cardinality(DOMAIN store[s].turns)

ShowsLatest(s, latest) ==
    /\ ~latest.response.raised
    /\ latest.response.code = OK
    /\ latest.response.data.snapshot.turn_number \in DOMAIN store[s].turns
    /\ \A k \in DOMAIN store[s].turns :
         k <= latest.response.data.snapshot.turn_number
    /\ latest.response.data.snapshot
         = json_loads(store[s].turns[
               latest.response.data.snapshot.turn_number])

\* C10: in any session state, history returns in data.turns exactly the
\* persisted turn numbers in ascending order, and latest returns in
\* data.snapshot the persisted snapshot whose turn_number is the largest of
\* them.
C10_HistoryAndLatest ==
    \A s \in Sessions(store) :
        /\ ListsTurns(s, Outcome(Raw(JStr(s), "history", EmptyDict),
                                  NoScript, None))
        /\ ShowsLatest(s, Outcome(Raw(JStr(s), "latest", EmptyDict),
                                   NoScript, None))

C10_HistoryOfGame ==
    /\ Answered("history")
    /\ response.code = OK
    /\ Len(response.data.turns) >= 3

ViewRaw(s, a) == Raw(JStr(s), "view", a)

PluginLoaded(s) == read_meta(store, s).plugin_id \in plugins

ShowsTurn(s, k, r) ==
    /\ ~r.response.raised
    /\ r.response.ok
    /\ r.response.code = OK
    /\ r.response.data.snapshot = json_loads(store[s].turns[k])
    /\ r.response.data.snapshot.turn_number = k

RefusesTurn(s, r) ==
    /\ ~r.response.raised
    /\ ~r.response.ok
    /\ r.response.code = INVALID_ARGS
    /\ Sessions(r.store) = Sessions(store)
    /\ \A t \in Sessions(store) :
         /\ r.store[t].turns = store[t].turns
         /\ r.store[t].meta = store[t].meta

ViewsTurn(s, k, r) ==
    IF k \in 0 .. latest_turn(store, s) THEN ShowsTurn(s, k, r)
    ELSE RefusesTurn(s, r)

\* C11: view with args.turn_number = k returns the persisted snapshot of turn k
\* for every k in 0 .. latest_turn, returns the latest snapshot when
\* args.turn_number is omitted, and for every integer k outside 0 .. latest_turn
\* (negative or above the latest) returns INVALID_ARGS with ok false, leaving
\* every turn snapshot and the session metadata as they were.
C11_ViewShowsTurn ==
    \A s \in Sessions(store) :
        PluginLoaded(s) =>
            /\ ShowsTurn(s, latest_turn(store, s),
                         Outcome(ViewRaw(s, EmptyDict), NoScript, None))
            /\ \A k \in -1 .. MaxViewTurn :
                 ViewsTurn(s, k, Outcome(ViewRaw(s, [turn_number |-> JInt(k)]),
                                         NoScript, None))

\* The last call viewed a turn older than the latest one.
C11_EarlierTurnViewed ==
    /\ Answered("view")
    /\ response.code = OK
    /\ "turn_number" \in DOMAIN request.args.v
    /\ request.args.v.turn_number.v < response.turn_number
    /\ response.data.snapshot.turn_number = request.args.v.turn_number.v

\* What a command refused after the session was loaded leaves behind: one more
\* audit entry with post_hash = pre_hash, and nothing else.
RefusesCommand(s, code, r) ==
    /\ ~r.response.raised
    /\ r.response.code = code
    /\ ~r.response.ok
    /\ ~r.response.turn_advanced
    /\ Sessions(r.store) = Sessions(store)
    /\ \A t \in Sessions(store) \ {s} : r.store[t] = store[t]
    /\ r.store[s].turns = store[s].turns
    /\ r.store[s].meta = store[s].meta
    /\ Len(r.store[s].log) = Len(store[s].log) + 1
    /\ SubSeq(r.store[s].log, 1, Len(store[s].log)) = store[s].log
    /\ LastEntry(r.store, s).pre_hash = state_hash(Latest(s).canonical_state)
    /\ LastEntry(r.store, s).post_hash = LastEntry(r.store, s).pre_hash
    /\ LastEntry(r.store, s).response = r.response

\* Commands that are neither framework commands nor in the standard vocabulary.
UnknownCommands == {"dance", "MOVE", ""}

\* C12: for every existing session whose plugin the registry holds, whatever
\* that plugin and whatever the state, a command that is neither a framework
\* command nor in the standard vocabulary is answered UNKNOWN_COMMAND with ok
\* false and turn_advanced false, appends one audit entry with
\* post_hash = pre_hash and writes no turn; the answer is the same whatever
\* plugin.execute would do, for execute is not called.
C12_UnknownCommandRejected ==
    \A s \in Sessions(store) : \A c \in UnknownCommands :
        \A a \in {EmptyDict, Move(0, 0)} : \A o \in StepScripts :
            PluginLoaded(s)
                => RefusesCommand(s, UNKNOWN_COMMAND,
                                  Outcome(Raw(JStr(s), c, a), o, None))

C12_DanceRefused ==
    /\ Answered("dance")
    /\ response.code = UNKNOWN_COMMAND
    /\ Len(store[response.session_id].log) = 2

\* The standard commands the plugin of session s does not declare.
Undeclared(s) ==
    (STANDARD_COMMANDS \ FRAMEWORK_COMMANDS)
        \ manifest(read_meta(store, s).plugin_id).supported_commands

\* C13: for every existing session whose plugin the registry holds, a command
\* of the standard vocabulary that is no framework command and is absent from
\* the supported_commands of the plugin's manifest is answered NOT_SUPPORTED
\* with ok false and turn_advanced false, appends one audit entry with
\* post_hash = pre_hash and writes no turn; the answer is the same whatever
\* plugin.execute would do, for execute is not called.
C13_UndeclaredCommandRejected ==
    \A s \in Sessions(store) : \A c \in Undeclared(s) :
        \A a \in {EmptyDict, Move(0, 0)} : \A o \in StepScripts :
            PluginLoaded(s)
                => RefusesCommand(s, NOT_SUPPORTED,
                                  Outcome(Raw(JStr(s), c, a), o, None))

C13_ResetRefused ==
    /\ Answered("reset")
    /\ response.code = NOT_SUPPORTED
    /\ "reset" \in Undeclared(response.session_id)
    /\ Len(store[response.session_id].log) = 2

\* The call that returned r wrote the snapshot of turn k of session s, and no
\* other.
WroteTurn(s, k, r) ==
    /\ s \in Sessions(store)
    /\ k \notin DOMAIN store[s].turns
    /\ DOMAIN r.store[s].turns = DOMAIN store[s].turns \cup {k}
    /\ read_turn(r.store, s, k).turn_number = k

AdvancedWroteTurn(r) ==
    (~r.response.raised /\ r.response.turn_advanced)
        => /\ r.response.code = OK
           /\ r.response.ok
           /\ WroteTurn(r.response.session_id, r.response.turn_number, r)

\* C14: in every response dispatch returns, turn_advanced implies code OK and
\* ok, and turn_number is the number of the turn snapshot that this very call
\* wrote; no response has turn_advanced without a new snapshot written by that
\* call.
C14_AdvancedImpliesNewTurn ==
    \A raw \in Raws : \A o \in ScriptsOf(raw) : \A fresh \in FreshOf(raw) :
        AdvancedWroteTurn(Outcome(raw, o, fresh))

\* The last call advanced a session of the scripted plugin.
C14_AdvancedAnswered ==
    /\ Answered("move")
    /\ response.turn_advanced
    /\ response.code = OK
    /\ read_meta(store, response.session_id).plugin_id = SCRIPTED
    /\ response.turn_number = latest_turn(store, response.session_id)

\* The turn number of the envelope: the turn the call wrote, or the latest
\* turn of session s when the request arrived.
ReflectsTurn(s, r) ==
    ~r.response.raised
        => IF r.response.turn_advanced
           THEN WroteTurn(s, r.response.turn_number, r)
           ELSE r.response.turn_number = latest_turn(store, s)

\* The requests that fail validation and name a session by a string.
InvalidNaming(s) ==
    {raw \in UNION {Malformed(Raw(JStr(s), c, EmptyDict)) :
                        c \in {"status", "move", "view", "dance"}} :
        raw.session_id.t = "str"}

CarriesTurnZero(r) == ~r.response.raised => r.response.turn_number = 0

\* The valid requests on session s other than register (which opens another
\* session and answers for that one).
CommandRaws(s) ==
    {raw \in SessionRaws : Named(raw) = s /\ raw.command.v # "register"}

\* C15: for every request other than register that passes validation and names
\* an existing session, the turn number of the response is the newly written
\* turn if the turn advanced, and otherwise the latest turn of the session when
\* the request arrived, also when a view or the plugin answers INVALID_ARGS; a
\* request that fails validation is answered with turn number 0 whatever
\* session it names.
C15_TurnNumberReflectsSession ==
    /\ \A s \in Sessions(store) : \A raw \in CommandRaws(s) :
         \A o \in ScriptsOf(raw) : ReflectsTurn(s, Outcome(raw, o, None))
    /\ \A s \in Sessions(store) : \A raw \in InvalidNaming(s) :
         CarriesTurnZero(Outcome(raw, NoScript, None))

\* C15 as the specification states it: the turn number also reflects the
\* session when the request is rejected for failing validation.
C15_TurnNumberOfEveryRequest ==
    \A s \in Sessions(store) :
        \A raw \in CommandRaws(s) \cup InvalidNaming(s) :
            \A o \in ScriptsOf(raw) :
                ReflectsTurn(s, Outcome(raw, o, None))

\* The last call asked for a turn that does not exist, in a game that is past
\* its first turn.
C15_RefusedViewKeepsTurn ==
    /\ Answered("view")
    /\ response.code = INVALID_ARGS
    /\ response.turn_number >= 1
    /\ response.turn_number = latest_turn(store, response.session_id)

EnvelopeFields ==
    {"ok", "code", "message", "data", "turn_advanced", "turn_number",
     "game_over", "winner", "session_id"}

ReturnsEnvelope(r) ==
    /\ ~r.response.raised
    /\ EnvelopeFields \subseteq DOMAIN r.response

\* C16: dispatch returns a structurally complete response envelope and never
\* raises, whatever the request: in particular for a request whose session_id
\* is not a string, a register whose args.plugin_id is a mapping, and a view
\* whose args.turn_number is a string, a float or null.
C16_AlwaysEnvelope ==
    \A raw \in Raws \cup OddRaws : \A o \in ScriptsOf(raw) :
        \A fresh \in FreshOf(raw) : ReturnsEnvelope(Outcome(raw, o, fresh))

\* The request reaches plugin.execute, which raises.
ExecuteRaises(raw, o) ==
    /\ reaches_plugin(store, plugins, raw)
    /\ Executed(raw, o).raised

AnswersFailure(s, message, r) ==
    /\ RefusesCommand(s, INTERNAL_ERROR, r)
    /\ r.response.turn_number = latest_turn(store, s)
    /\ r.response.message = message
    /\ read_turn(r.store, s, latest_turn(r.store, s)) = Latest(s)

\* C17: if plugin.execute raises, dispatch returns INTERNAL_ERROR with ok
\* false, turn_advanced false, the arrival turn number and the exception's
\* message, appends exactly one audit entry with post_hash = pre_hash and
\* writes no turn; the latest state of the session is as before, also when the
\* plugin changed the state object it was handed before it raised.
C17_PluginFailureAnswered ==
    \A raw \in SessionRaws : \A o \in ScriptsOf(raw) :
        ExecuteRaises(raw, o)
            => AnswersFailure(Named(raw), Executed(raw, o).message,
                              Outcome(raw, o, None))

C17_FailureLogged ==
    /\ Answered("move") \/ Answered("status")
    /\ response.code = INTERNAL_ERROR
    /\ response.message = "plugin failure"
    /\ LastEntry(store, response.session_id).response = response

\* The branches of dispatch that handle a framework command or route to the
\* plugin, in a session whose plugin the registry holds.
LoggedBranches ==
    {"framework", "unknown_command", "not_supported", "plugin_raised",
     "advanced", "action_failed", "informed"}

\* The log of session s after the call is its log before it and one more line.
AppendsOne(s, r) ==
    /\ Sessions(r.store) = Sessions(store)
    /\ \A t \in Sessions(store) \ {s} : r.store[t].log = store[t].log
    /\ Len(r.store[s].log) = Len(store[s].log) + 1
    /\ SubSeq(r.store[s].log, 1, Len(store[s].log)) = store[s].log

\* What the new line records.
Records(s, raw, entry, r) ==
    /\ entry.request = Request(raw)
    /\ entry.response = r.response
    /\ entry.turn_advanced = r.response.turn_advanced
    /\ entry.turn_number = latest_turn(r.store, s)
    /\ entry.turn_number = r.response.turn_number
    /\ entry.pre_hash = state_hash(Latest(s).canonical_state)
    /\ entry.post_hash
         = state_hash(read_turn(r.store, s, latest_turn(r.store, s)).canonical_state)
    /\ ~entry.turn_advanced => entry.pre_hash = entry.post_hash

LogsOnce(s, raw, r) ==
    /\ ~r.response.raised
    /\ AppendsOne(s, r)
    /\ Records(s, raw, LastEntry(r.store, s), r)

AnyCommandRaws(s) ==
    CommandRaws(s) \cup {ViewRaw(s, a) : a \in OddViewArgs}

AnswersWithoutPlugin(s, r) ==
    /\ ~r.response.raised
    /\ r.response.code = INTERNAL_ERROR
    /\ ~r.response.ok
    /\ ~r.response.turn_advanced
    /\ r.response.turn_number = latest_turn(store, s)
    /\ r.response.game_over = Latest(s).canonical_state.game_over
    /\ r.response.winner = Latest(s).canonical_state.winner
    /\ r.store = store

\* C19: when a request names an existing session whose recorded plugin_id is
\* not in the plugin registry, every command other than register, framework
\* commands included, is answered INTERNAL_ERROR with the latest turn_number,
\* game_over and winner of the session, and nothing is written: no audit entry
\* and no turn.
C19_MissingPluginAnswered ==
    \A s \in Sessions(store) :
        ~PluginLoaded(s)
            => \A raw \in AnyCommandRaws(s) : \A o \in StepScripts :
                   AnswersWithoutPlugin(s, Outcome(raw, o, None))

\* The last call was a framework command on a session whose plugin the
\* registry no longer holds.
C19_HistoryWithoutPlugin ==
    /\ Answered("history")
    /\ response.code = INTERNAL_ERROR
    /\ response.session_id \in Sessions(store)
    /\ ~PluginLoaded(response.session_id)

\* A tic-tac-toe session right after register.
JustRegistered(s) ==
    /\ read_meta(store, s).plugin_id = TICTACTOE
    /\ PluginLoaded(s)
    /\ Len(store[s].log) = 1
    /\ latest_turn(store, s) = 0

CellsOf(board, token) == {c \in Idx \X Idx : board[c[2]][c[1]] = token}

CarriesReply(s, state, r) ==
    /\ ~r.response.raised
    /\ r.response.turn_advanced
    /\ r.response.turn_number = 1
    /\ r.response.data.board[0][0] = state.agent_token
    /\ Cardinality(CellsOf(r.response.data.board, state.opponent_token)) = 1
    /\ Len(read_turn(r.store, s, 1).events) = 2
    /\ read_turn(r.store, s, 1).canonical_state.board = r.response.data.board

\* C20: after register followed by move (0,0), the response of the move has
\* turn_advanced and turn_number 1, the board carried in the response has cell
\* (0,0) set to the agent token and exactly one cell placed by the opponent
\* elsewhere, and the persisted snapshot of turn 1 has two events and the same
\* board.
C20_FirstMoveCarriesReply ==
    \A s \in Sessions(store) :
        JustRegistered(s)
            => CarriesReply(s, Latest(s).canonical_state,
                            Outcome(Raw(JStr(s), "move", Move(0, 0)),
                                    NoScript, None))

\* The turn files of session s after a step: those it had, as they were, and
\* at most the one numbered latest_turn + 1.
KeepsTurns(s) ==
    /\ \A k \in DOMAIN store[s].turns :
         /\ k \in DOMAIN store'[s].turns
         /\ store'[s].turns[k] = store[s].turns[k]
    /\ DOMAIN store'[s].turns
         \subseteq DOMAIN store[s].turns \cup {latest_turn(store, s) + 1}

\* C21: a turn snapshot is immutable once written: every call of dispatch
\* leaves each turn file of each session with the content it had, and the only
\* files it adds are turn 0 of a session it creates and turn latest_turn + 1 of
\* an existing session.
C21_TurnsImmutable ==
    [][/\ Sessions(store) \subseteq Sessions(store')
       /\ \A s \in Sessions(store') :
            IF s \in Sessions(store) THEN KeepsTurns(s)
            ELSE DOMAIN store'[s].turns = {0}]_vars

\* Two moves have been committed on a session, the second by the last call,
\* and turn 0 is still the one register wrote.
C21_LaterTurnsWritten ==
    /\ Answered("move")
    /\ response.turn_advanced
    /\ response.turn_number >= 2
    /\ read_turn(store, response.session_id, 0).events[1].type = "register"
    /\ read_turn(store, response.session_id, 1).events[1].type = "action"

\* The call again of a request on session s answers as the call first did, and
\* the session has the turn files it had before either; its log has grown.
SameAgain(s, first, again) ==
    /\ ~again.response.raised
    /\ again.response = first.response
    /\ Sessions(again.store) = Sessions(store)
    /\ \A t \in Sessions(store) \ {s} : again.store[t] = store[t]
    /\ first.store[s].turns = store[s].turns
    /\ again.store[s].turns = store[s].turns
    /\ again.store[s].meta = store[s].meta
    /\ read_turn(again.store, s, latest_turn(again.store, s)) = Latest(s)
    /\ Len(again.store[s].log) >= Len(store[s].log)
    /\ SubSeq(again.store[s].log, 1, Len(store[s].log)) = store[s].log

SafeToRetry(s, raw, o, first) ==
    (~first.response.raised /\ ~first.response.turn_advanced)
        => SameAgain(s, first, dispatch(first.store, plugins, raw, o, None))

\* C22: a request that does not advance the turn is safe to retry: when a
\* request on a session (a framework command, rules, status, a rejected move or
\* any other command but register) is answered without turn_advanced,
\* dispatching it again at once, the plugin behaving as it did, returns the
\* identical response, and the turn snapshots and latest state of the session
\* are as they were before the first call; only its audit log has grown.
C22_NonAdvancingRetrySafe ==
    \A s \in Sessions(store) : \A raw \in CommandRaws(s) :
        \A o \in ScriptsOf(raw) :
            SafeToRetry(s, raw, o, Outcome(raw, o, None))

\* A move was rejected and then sent again: the last two lines of the log hold
\* the same request and the same response.
C22_RejectedMoveSentTwice ==
    /\ Answered("move")
    /\ response.code = INVALID_MOVE
    /\ response.session_id \in Sessions(store)
    /\ Len(store[response.session_id].log) >= 3
    /\ LastEntry(store, response.session_id).response = response
    /\ LogOf(store, response.session_id)
            [Len(store[response.session_id].log) - 1].response = response
    /\ LogOf(store, response.session_id)
            [Len(store[response.session_id].log) - 1].request = Request(request)

\* The latest turn of tic-tac-toe session s holds a game that is over.
GameEnded(s) ==
    /\ read_meta(store, s).plugin_id = TICTACTOE
    /\ PluginLoaded(s)
    /\ Latest(s).canonical_state.game_over

\* The call is answered GAME_OVER and leaves the turns of session s.
RefusedAsOver(s, r) ==
    /\ ~r.response.raised
    /\ r.response.code = GAME_OVER
    /\ ~r.response.ok
    /\ ~r.response.turn_advanced
    /\ r.response.turn_number = latest_turn(store, s)
    /\ r.response.game_over
    /\ r.store[s].turns = store[s].turns

\* C23: once the latest turn of a tic-tac-toe session has game_over = true,
\* every move request, whatever its arguments (a free cell, an occupied cell,
\* a cell beside the board, a coordinate that is no integer, none at all), is
\* answered GAME_OVER with turn_advanced = false, and no command changes the
\* turns of the session: its latest turn number and state stay as they are.
C23_MoveAfterEndRefused ==
    \A s \in Sessions(store) :
        GameEnded(s)
            => /\ \A a \in MoveArgs :
                    RefusedAsOver(s, Outcome(Raw(JStr(s), "move", a), NoScript, None))
               /\ \A raw \in CommandRaws(s) :
                    Outcome(raw, NoScript, None).store[s].turns = store[s].turns

\* The opponent won, and the move sent after that was answered GAME_OVER.
C23_RefusedAfterOpponentWon ==
    /\ Answered("move")
    /\ response.code = GAME_OVER
    /\ response.winner = "opponent"
    /\ response.session_id \in Sessions(store)
    /\ Latest(response.session_id).canonical_state.game_over
    /\ LastEntry(store, response.session_id).response = response

\* The two dicts of the request hold the same key/value pairs at every depth.
SameMapping == AsMapping(request.first) = AsMapping(request.second)

Encoding == request # Null /\ "first" \in DOMAIN request

\* C24: canonical encoding is deterministic: of two dicts that hold the same
\* key/value pairs, inserted in different orders at any nesting depth,
\* stable_json_dumps yields the same text and state_hash the same hash.
C24_EncodingIgnoresInsertionOrder ==
    (Encoding /\ SameMapping)
        => /\ stable_json_dumps_text(request.first)
                = stable_json_dumps_text(request.second)
           /\ state_hash_text(request.first) = state_hash_text(request.second)

\* Two dicts were encoded whose keys were inserted in the same order at the
\* top and in different orders inside a nested dict, and the texts are equal.
C24_NestedOrderDiffers ==
    /\ Encoding
    /\ response # Null
    /\ SameMapping
    /\ request.first # request.second
    /\ [i \in DOMAIN request.first.items |-> request.first.items[i][1]]
         = [i \in DOMAIN request.second.items |-> request.second.items[i][1]]
    /\ response.first = response.second
    /\ response.first_hash = response.second_hash

\* The audit log of session s is a chain: it starts with the register entry,
\* each entry starts from the hash the entry before it ended with, and the
\* last ends with the hash of the latest state.
HashChained(st, s) ==
    /\ Len(st[s].log) >= 1
    /\ LogOf(st, s)[1].request.command = "register"
    /\ LogOf(st, s)[1].pre_hash = Null
    /\ \A i \in 1 .. Len(st[s].log) - 1 :
         LogOf(st, s)[i + 1].pre_hash = LogOf(st, s)[i].post_hash
    /\ LastEntry(st, s).post_hash
         = state_hash(read_turn(st, s, latest_turn(st, s)).canonical_state)

\* C25: the audit log of every session is hash-chained: the first entry is
\* the register entry with pre_hash null, the pre_hash of every later entry is
\* the post_hash of the entry before it, and the post_hash of the last entry
\* is the hash of the canonical state of the latest persisted turn.
C25_LogHashChained ==
    \A s \in Sessions(store) : HashChained(store, s)

\* Two moves in a row advanced the turn, each changing the hash.
C25_TwoAdvancesChained ==
    \E s \in Sessions(store) :
        /\ Len(store[s].log) >= 3
        /\ LogOf(store, s)[2].turn_advanced
        /\ LogOf(store, s)[3].turn_advanced
        /\ LogOf(store, s)[2].pre_hash # LogOf(store, s)[2].post_hash
        /\ LogOf(store, s)[3].pre_hash = LogOf(store, s)[2].post_hash
        /\ LogOf(store, s)[3].pre_hash # LogOf(store, s)[3].post_hash

TicTacToeSessions == {s \in Sessions(store) : read_meta(store, s).plugin_id = TICTACTOE}

\* The agent's own move ended the game of this snapshot.
AgentEndedGame(snapshot) ==
    /\ snapshot.canonical_state.game_over
    /\ snapshot.canonical_state.last_move.player = "agent"

\* A snapshot written by a move: the agent's event alone exactly when the
\* agent's move ended the game, and the opponent's event after it otherwise.
OneTurnPerMove(snapshot) ==
    /\ Len(snapshot.events) \in {1, 2}
    /\ snapshot.events[1].type = "action"
    /\ Len(snapshot.events) = 1 <=> AgentEndedGame(snapshot)
    /\ Len(snapshot.events) = 2
         => /\ snapshot.events[2].type = "opponent_step"
            /\ snapshot.canonical_state.last_move.player = "opponent"

\* C26: the agent's move and the opponent's reply are committed as one turn:
\* every persisted snapshot of a tic-tac-toe session has next_player = "agent",
\* so no move is answered "It is not the agent's turn", and the snapshot of a
\* move holds exactly one event precisely when the agent's own move ended the
\* game (two otherwise: the action and the opponent's step).
C26_MoveAndReplyOneTurn ==
    \A s \in TicTacToeSessions :
        /\ \A k \in DOMAIN store[s].turns :
             /\ read_turn(store, s, k).canonical_state.next_player = "agent"
             /\ k >= 1 => OneTurnPerMove(read_turn(store, s, k))
        /\ \A a \in MoveArgs :
             Executed(Raw(JStr(s), "move", a), NoScript).message
                 # "It is not the agent's turn"

\* A game whose first turns hold the opponent's reply and whose last turn holds
\* the agent's move alone, the move that ended it.
C26_AgentMoveEndedGame ==
    \E s \in TicTacToeSessions :
        /\ latest_turn(store, s) >= 2
        /\ Len(read_turn(store, s, 1).events) = 2
        /\ Len(Latest(s).events) = 1
        /\ Latest(s).canonical_state.game_over
        /\ Latest(s).canonical_state.next_player = "agent"

\* The turn a call loaded, and whether its move succeeds on the state it loaded.
LoadedTurn(t) == calls[t].loaded.snapshot.turn_number

MoveSucceeds(t) ==
    advances(TRUE,
             call_execute(calls[t].loaded.meta.plugin_id, NoScript,
                          Request(calls[t].raw), calls[t].loaded.snapshot,
                          calls[t].loaded.snapshot.canonical_state))

Past(t) == calls[t].at \in {"executed", "returned"}

\* Two calls with moves that succeed loaded the same turn, and both returned.
Raced(t, u) ==
    /\ t # u
    /\ calls[t].at = "returned" /\ calls[u].at = "returned"
    /\ LoadedTurn(t) = LoadedTurn(u)
    /\ MoveSucceeds(t) /\ MoveSucceeds(u)

\* The lines of the log of calls that advanced to the given turn.
AdvancedLines(s, k) ==
    {i \in 1 .. Len(store[s].log) :
        /\ json_loads(store[s].log[i]).turn_advanced
        /\ json_loads(store[s].log[i]).turn_number = k}

\* The session has turn k as its latest, with the state that call u wrote,
\* and two log entries of calls that advanced to it.
LaterWriteKept(s, k, u) ==
    /\ latest_turn(store, s) = k
    /\ state_hash(read_turn(store, s, k).canonical_state)
         = calls[u].entry.post_hash
    /\ Cardinality(AdvancedLines(s, k)) = 2

\* C27: the dispatcher detects no conflict between calls that interleave on one
\* session. A call whose move succeeds on the turn N it loaded writes turn N+1
\* and answers turn_advanced with turn number N+1, whatever another call has
\* written since; when two such calls loaded the same turn N, the session has
\* the single new turn N+1, its snapshot is the one written later, and the
\* audit log holds two entries with turn_advanced for turn N+1.
C27_RacingMovesBothAdvance ==
    \A t \in Threads :
        /\ Past(t) /\ MoveSucceeds(t)
             => /\ calls[t].wrote
                /\ calls[t].response.turn_advanced
                /\ calls[t].response.turn_number = LoadedTurn(t) + 1
                /\ calls[t].entry.turn_advanced
                /\ calls[t].entry.turn_number = LoadedTurn(t) + 1
        /\ \A u \in Threads :
             Raced(t, u) /\ calls[u].after = {t}
                => LaterWriteKept(Request(calls[t].raw).session_id,
                                  LoadedTurn(t) + 1, u)

\* Two calls that loaded the same turn have returned, their moves on different
\* cells: the turn file holds the move of the call that wrote second, and the
\* log ends with the entry of the other.
C27_TwoMovesOneTurn ==
    \E t \in Threads : \E u \in Threads :
        /\ Raced(t, u) /\ calls[u].after = {t}
        /\ calls[t].raw # calls[u].raw
        /\ calls[t].entry.post_hash # calls[u].entry.post_hash
        /\ response = calls[t].response
        /\ LoadedTurn(t) >= 1

\* The lines of the log of calls that advanced a turn.
Advances(st, s) ==
    {i \in 1 .. Len(st[s].log) : json_loads(st[s].log[i]).turn_advanced}

InStep(st, s) ==
    /\ latest_turn(st, s) = Cardinality(Advances(st, s))
    /\ Cardinality(DOMAIN st[s].turns) = Cardinality(Advances(st, s)) + 1
    /\ Len(st[s].log) >= 1
    /\ json_loads(st[s].log[Len(st[s].log)]).turn_number = latest_turn(st, s)

\* C28: the audit log and the turn files stay in step. For every session,
\* after any sequence of calls made one after the other, latest_turn is the
\* number of its log entries with turn_advanced, it has one snapshot more than
\* that, and the turn_number of its last log entry is latest_turn.
C28_LogAndTurnsInStep == \A s \in Sessions(store) : InStep(store, s)

\* A session whose log holds advancing entries between others, the last of
\* which did not advance.
C28_AdvancesBetweenOthers ==
    \E s \in Sessions(store) :
        /\ Cardinality(Advances(store, s)) >= 2
        /\ Len(store[s].log) > Cardinality(Advances(store, s)) + 1
        /\ Len(store[s].log) \notin Advances(store, s)

\* The empty cells of the board of turn k.
EmptyAt(s, k) == CellsOf(read_turn(store, s, k).canonical_state.board, " ")

\* winner names who won exactly when the game is over, and is null otherwise.
WinnerNamed(state) ==
    IF state.game_over THEN state.winner \in {"agent", "opponent", "draw"}
    ELSE state.winner = None

\* The game of session s is bounded: at most five turns, fewer empty cells
\* with each, over by the fifth.
Bounded(s) ==
    /\ latest_turn(store, s) <= 5
    /\ latest_turn(store, s) = 5 => Latest(s).canonical_state.game_over
    /\ \A k \in DOMAIN store[s].turns :
         /\ WinnerNamed(read_turn(store, s, k).canonical_state)
         /\ k >= 1 => Cardinality(EmptyAt(s, k)) < Cardinality(EmptyAt(s, k - 1))

Over(s) == s \in Sessions(store) /\ Latest(s).canonical_state.game_over

\* While the game of session s is on, a move on any of its empty cells, and on
\* no other, advances the turn.
MovesOnEmptyCells(s) ==
    CanMove(s) =>
        /\ EmptyAt(s, latest_turn(store, s)) # {}
        /\ \A c \in Idx \X Idx :
             c \in EmptyAt(s, latest_turn(store, s))
                <=> branch_of(store, plugins,
                              Raw(JStr(s), "move", Move(c[1], c[2])), NoScript)
                        = "advanced"

\* C29: every tic-tac-toe session terminates. The latest turn number never
\* exceeds 5, each successful move leaves fewer empty cells than the turn
\* before, winner is agent, opponent or draw exactly when game_over is true and
\* null otherwise, and a session whose agent keeps submitting moves on empty
\* cells reaches game_over, after at most five successful moves.
C29_GameTerminates ==
    /\ [](\A s \in TicTacToeSessions : Bounded(s) /\ MovesOnEmptyCells(s))
    /\ \A s \in GameIds : (s \in Sessions(store)) ~> Over(s)

\* A game that took all five moves of the agent and ended in a draw.
C29_DrawnAtFifthMove ==
    \E s \in TicTacToeSessions :
        /\ latest_turn(store, s) = 5
        /\ Latest(s).canonical_state.game_over
        /\ Latest(s).canonical_state.winner = "draw"
        /\ EmptyAt(s, 5) = {}

\* The envelope carries game_over and winner of the given state.
ReportsGame(resp, state) ==
    /\ resp.game_over = state.game_over
    /\ resp.winner = state.winner

\* The latest turn of session s in the store a call leaves.
LatestAfter(s, r) == read_turn(r.store, s, latest_turn(r.store, s))

ReportsPersisted(s, r) ==
    ~r.response.raised
        => ReportsGame(r.response, LatestAfter(s, r).canonical_state)

\* The envelope of a command that is no action carries the state the plugin
\* returned for it, which is not written.
ReportsReturned(raw, o, r) ==
    ~r.response.raised
        => ReportsGame(r.response, Executed(raw, o).new_state)

ReportsGameOf(s, raw, o, r) ==
    IF r.branch = "informed" THEN ReportsReturned(raw, o, r)
    ELSE ReportsPersisted(s, r)

Loaded == {s \in Sessions(store) : PluginLoaded(s)}

\* C30: for every response on an existing session with a loadable plugin, the
\* envelope's game_over and winner are those of the session's latest persisted
\* turn after the call (so a move whose reply by the opponent ended the game
\* already reports game_over and the winner), except for a plugin command that
\* is no action: its envelope reports the state the plugin returned, which is
\* not persisted. For tic-tac-toe, whose commands other than move return the
\* state unchanged, the two agree on every response.
C30_EnvelopeReportsGame ==
    \A s \in Loaded : \A raw \in CommandRaws(s) : \A o \in ScriptsOf(raw) :
        /\ ReportsGameOf(s, raw, o, Outcome(raw, o, None))
        /\ s \in TicTacToeSessions => ReportsPersisted(s, Outcome(raw, o, None))

\* C30 as the specification states it: every envelope reports the latest
\* persisted turn.
C30_EnvelopeReportsPersisted ==
    \A s \in Loaded : \A raw \in CommandRaws(s) : \A o \in ScriptsOf(raw) :
        ReportsPersisted(s, Outcome(raw, o, None))

\* The last call was a move of tic-tac-toe that did not end the game; the
\* opponent's reply did, and the envelope of the move says so.
C30_ReplyEndedGame ==
    /\ Answered("move")
    /\ response.turn_advanced
    /\ response.game_over
    /\ response.winner = "opponent"
    /\ response.session_id \in TicTacToeSessions
    /\ Len(Latest(response.session_id).events) = 2
    /\ Latest(response.session_id).canonical_state.winner = "opponent"

\* The request is a command on session s: it passes validation, is no
\* register, and names s.
CommandOn(raw, s) ==
    /\ validates(raw)
    /\ raw.command.v # "register"
    /\ raw.session_id.t = "str"
    /\ raw.session_id.v = s

\* The call leaves every session it is no command on as it was, and the
\* metadata of every session.
KeepsOthers(raw, r) ==
    \A s \in Sessions(store) :
        /\ s \in Sessions(r.store)
        /\ r.store[s].meta = store[s].meta
        /\ ~CommandOn(raw, s) => r.store[s] = store[s]

\* The metadata of a session is what its register was given.
MetaAsCreated(s) ==
    /\ DOMAIN read_meta(store, s)
         = {"session_id", "plugin_id", "agent_id", "protocol_version", "options"}
    /\ read_meta(store, s).session_id = s
    /\ json_loads(store[s].log[1]).request.command = "register"
    /\ read_meta(store, s).agent_id
         = json_loads(store[s].log[1]).request.agent_id
    /\ read_meta(store, s).plugin_id = json_loads(store[s].log[1]).response.data.plugin_id

\* C31: sessions are isolated and their metadata is fixed. A dispatch that
\* names session A, or that creates a new session, leaves the metadata, every
\* turn snapshot and the audit log of every other existing session unchanged,
\* and no dispatch changes the metadata of a session that exists: it stays what
\* the register that created the session wrote.
C31_SessionsIsolated ==
    /\ \A raw \in ValidRaws \cup OddRaws :
         \A o \in ScriptsOf(raw) : \A fresh \in FreshOf(raw) :
            KeepsOthers(raw, Outcome(raw, o, fresh))
    /\ \A s \in Sessions(store) : MetaAsCreated(s)

\* Two sessions, both past their first turn, the last call a move on one of
\* them that wrote a turn.
C31_MoveBesideOtherSession ==
    /\ Sessions(store) = SessionIds
    /\ \A s \in SessionIds : latest_turn(store, s) >= 1
    /\ Answered("move")
    /\ response.turn_advanced

====
